---- MODULE Spec2Model ----
(***************************************************************************)
(* A model of the orchestrator's turn handler                              *)
(* (src/src/app/a2a/server.py, OrchestratorAgentExecutor) together with    *)
(* the session store it uses (src/src/app/utils/agent_trace.py) and the    *)
(* initial agent state (src/src/app/agent/state.py).                       *)
(*                                                                         *)
(* Python strings that the code strips or rewrites are modelled as         *)
(* sequences of chunks: a chunk is a run of whitespace (SP), the literal   *)
(* "Bearer " (BEARER), or a word.  "" is the empty sequence.               *)
(* Identifiers that are only compared (user ids, context ids, workflow     *)
(* ids, task states) are plain strings; Python's None is NoneId there      *)
(* and NoneStr among chunk strings.                                        *)
(*                                                                         *)
(* A turn is cut into steps at the points where the coroutine really       *)
(* waits: the call of get_user_info and the call of main.                  *)
(***************************************************************************)
EXTENDS Integers, Sequences, FiniteSets, TLC

VARIABLES
    turn,         \* per request slot: the AgentState of the turn and its position
    event_queue,  \* per request slot: the events enqueued on the request's EventQueue
    calls,        \* per request slot: the collaborators invoked so far, in order
    agent_trace,  \* self.agent_trace of the one executor instance
    chat_session, \* the chat_session table: (context_id, user_id) -> row
    task_store,   \* the tasks the request handler has stored, with their states
    hist,         \* per context id: turns started, classifier calls, first route
    turns,        \* number of turns started so far
    resolver,     \* one call of the path resolver (Utilities): its arguments and result
    workflow_service, \* the workflow tables, the lru caches of WorkflowService and its last call
    workflow_run, \* the run of a workflow: its workflow, position, status and last input
    postgress     \* one call of Postgress.execute_query: the connection attempts and its outcome

vars == <<turn, event_queue, calls, agent_trace, chat_session, task_store, hist, turns, resolver,
          workflow_service, workflow_run, postgress>>

-----------------------------------------------------------------------------
(* Bounds of the model *)

MaxTurns == 2
MaxSteps == 2
MaxVehicles == 2
MaxCalls == 2
MaxWorkflowSteps == 2
MaxInputs == 3
MaxQueries == 2

-----------------------------------------------------------------------------
(* Values *)

SP == " "
BEARER == "Bearer "
NoneId == "None"
NoneStr == <<"None">>
EmptyStr == <<>>

Slots == {1, 2}
SeqSlots == {1}
Contexts == {"c1", "c2"}
SeqContexts == {"c1"}
Users == {"u1", "u2"}

\* a2a.types.TaskState values used by the handler
input_required == "input-required"
completed == "completed"
working == "working"

\* str.replace(old, "") on a chunk string
Replace(s, old) == SelectSeq(s, LAMBDA c : c # old)

RECURSIVE lstrip(_)
lstrip(s) == IF s # <<>> /\ Head(s) = SP THEN lstrip(Tail(s)) ELSE s

RECURSIVE rstrip(_)
rstrip(s) == IF s # <<>> /\ s[Len(s)] = SP THEN rstrip(SubSeq(s, 1, Len(s) - 1)) ELSE s

\* str.strip()
strip(s) == rstrip(lstrip(s))

\* Python truthiness of an Optional[str]
NotStr(s) == s = NoneStr \/ s = EmptyStr
NotId(s) == s = NoneId \/ s = ""

-----------------------------------------------------------------------------
(* What arrives from outside: requests and the collaborators' answers *)

\* The authorization header of the call context ("" when the header is missing)
Headers == { <<>>, <<BEARER, SP>>, <<BEARER, "tok">> }

\* The incoming message: the text get_user_input() returns and its first part.
\* is_data: the first part is a DataPart; data_keys / data_input describe its data.
Messages ==
    { [user_input |-> <<>>,              is_data |-> FALSE, data_keys |-> {},        data_input |-> <<>>],
      [user_input |-> <<SP, "hi", SP>>,  is_data |-> FALSE, data_keys |-> {},        data_input |-> <<>>],
      [user_input |-> <<>>,              is_data |-> TRUE,  data_keys |-> {},        data_input |-> <<>>],
      [user_input |-> <<>>,              is_data |-> TRUE,  data_keys |-> {"input"}, data_input |-> <<"go">>] }

Methods == {"message/stream", "message/send"}

\* The identity service's answer to get_user_info: the call fails, or a JSON
\* document whose output.data may hold userId and roles.
UserInfos ==
    { [raises |-> TRUE,  has_userId |-> FALSE, userId |-> "",   has_roles |-> FALSE, roles |-> <<>>],
      [raises |-> FALSE, has_userId |-> TRUE,  userId |-> "u1", has_roles |-> TRUE,  roles |-> <<"admin">>],
      [raises |-> FALSE, has_userId |-> TRUE,  userId |-> "u2", has_roles |-> TRUE,  roles |-> <<"admin", "ops">>],
      [raises |-> FALSE, has_userId |-> TRUE,  userId |-> "u1", has_roles |-> TRUE,  roles |-> <<>>],
      [raises |-> FALSE, has_userId |-> TRUE,  userId |-> "u1", has_roles |-> FALSE, roles |-> <<>>],
      [raises |-> FALSE, has_userId |-> FALSE, userId |-> "",   has_roles |-> TRUE,  roles |-> <<"admin">>],
      [raises |-> FALSE, has_userId |-> TRUE,  userId |-> "",   has_roles |-> TRUE,  roles |-> <<"admin">>] }

\* The completion service's answer to the classifier prompt: client.chat fails,
\* or a JSON object that may hold skill (null when skill_null) and workflow_id.
ClassifierResponses ==
    { [raises |-> TRUE,  has_skill |-> FALSE, skill_null |-> FALSE, skill |-> <<>>,                   workflow_id |-> NoneId],
      [raises |-> FALSE, has_skill |-> TRUE,  skill_null |-> FALSE, skill |-> <<"workflow">>,         workflow_id |-> "w1"],
      [raises |-> FALSE, has_skill |-> TRUE,  skill_null |-> FALSE, skill |-> <<SP, "workflow", SP>>, workflow_id |-> "w1"],
      [raises |-> FALSE, has_skill |-> TRUE,  skill_null |-> FALSE, skill |-> <<"capability">>,       workflow_id |-> NoneId],
      [raises |-> FALSE, has_skill |-> TRUE,  skill_null |-> FALSE, skill |-> <<"other">>,            workflow_id |-> NoneId],
      [raises |-> FALSE, has_skill |-> TRUE,  skill_null |-> FALSE, skill |-> <<"Workflow">>,         workflow_id |-> "w1"],
      [raises |-> FALSE, has_skill |-> TRUE,  skill_null |-> FALSE, skill |-> <<"work", SP, "flow">>, workflow_id |-> "w1"],
      [raises |-> FALSE, has_skill |-> TRUE,  skill_null |-> FALSE, skill |-> <<>>,                   workflow_id |-> NoneId],
      [raises |-> FALSE, has_skill |-> TRUE,  skill_null |-> TRUE,  skill |-> <<>>,                   workflow_id |-> NoneId],
      [raises |-> FALSE, has_skill |-> FALSE, skill_null |-> FALSE, skill |-> <<>>,                   workflow_id |-> NoneId] }

\* The routes _classify_skill accepts
Routes == { <<"capability">>, <<"workflow">>, <<"other">> }

\* An agent output is a dict; the model keeps the keys it holds.
Outputs == { {"summary"} }

\* A conversation or message entry {"role": ..., "content": ...}; the content is
\* a string (text) or a dict (the set of its keys).
Entry(role, text, dict) == [role |-> role, content |-> [text |-> text, dict |-> dict]]
UserEntry(input) == Entry("user", input, {})
AgentEntry(output) == Entry("agent", <<>>, output)

\* A current_state dict: which of the keys "messages" and "selected_skill" it
\* holds, and their values.
CurrentState(keys, messages, skill) == [keys |-> keys, messages |-> messages, selected_skill |-> skill]
EmptyDict == CurrentState({}, <<>>, EmptyStr)

\* AgentState.get_initial_state(), with the fields the turn handler reads or writes
get_initial_state ==
    [ input |-> NoneStr,
      output |-> {},
      token |-> EmptyStr,
      context_id |-> NoneId,
      input_data_keys |-> {},
      is_new_conversation |-> TRUE,
      messages |-> <<>>,
      status |-> "in_progress",
      task_id |-> 0,
      task_state |-> completed,
      conversation |-> <<>>,
      current_state |-> EmptyDict,
      selected_skill |-> NoneStr,
      workflow_id |-> NoneId,
      user_roles |-> <<"CUBE_E2E_ADMIN">>,
      user_id |-> NoneId ]

-----------------------------------------------------------------------------
(* The session store: AgentTrace over the chat_session table *)

NoRow == [exists |-> FALSE, conversation |-> <<>>, current_state |-> EmptyDict]

\* Utilities.json_or_none followed by the jsonb column: the value comes back as
\* it was written for the lists and dicts the handler stores.
json_or_none(payload) == payload

\* AgentTrace(context_id, agent_name, user_id)
AgentTrace(context_id, user_id) == [set |-> TRUE, context_id |-> context_id, user_id |-> user_id]
NoTrace == [set |-> FALSE, context_id |-> NoneId, user_id |-> NoneId]

\* The rows load_agent_session's SELECT returns: WHERE context_id = %s AND
\* agent_name = %s, with no condition on user_id and no ORDER BY.
SelectRows(trace) == { u \in Users : chat_session[trace.context_id, u].exists }

\* load_agent_session, given which of the selected rows comes first (rows[0])
load_agent_session(state, trace, first) ==
    IF SelectRows(trace) = {}
    THEN state
    ELSE LET row == chat_session[trace.context_id, first]
         IN  [state EXCEPT !.conversation = row.conversation,
                           !.current_state = row.current_state]

\* save_agent_session: the table after INSERT ... ON CONFLICT (context_id,
\* user_id, agent_name) DO UPDATE
save_agent_session(table, trace, state) ==
    [table EXCEPT ![trace.context_id, trace.user_id] =
        [exists |-> TRUE,
         conversation |-> json_or_none(state.conversation),
         current_state |-> json_or_none(state.current_state)]]

-----------------------------------------------------------------------------
(* The helpers of OrchestratorAgentExecutor *)

\* _validate_state: "ok", or the ValueError it raises
_validate_state(state) ==
    LET token == strip(Replace(state.token, BEARER))
    IN  IF NotStr(state.input) /\ Cardinality(state.input_data_keys) = 0
        THEN "Input payload is missing or empty."
        ELSE IF token = EmptyStr
        THEN "Authorization token is missing or empty."
        ELSE "ok"

\* The test of get_user_info (line 282) and of execute (line 69):
\* not user_id or (user_roles and len(user_roles) == 0)
Unauthorized(user_id, user_roles) ==
    NotId(user_id) \/ (user_roles # <<>> /\ Len(user_roles) = 0)

\* get_user_info after the tool call returned: the pair it returns, or raised
get_user_info(info) ==
    LET user_id == IF info.has_userId THEN info.userId ELSE NoneId
        user_roles == IF info.has_roles THEN info.roles ELSE <<>>
    IN  [raised |-> info.raises \/ Unauthorized(user_id, user_roles),
         user_id |-> user_id,
         user_roles |-> user_roles]

\* WorkflowService.get_all_workflows raises on an empty roles tuple
get_all_workflows_raises(user_roles) == user_roles = <<>>

\* A variant of _classify_skill that falls back to the route "other" when the
\* skill is not recognized
_classify_skill_default(response, user_roles) ==
    LET skill == IF response.has_skill /\ ~response.skill_null THEN strip(response.skill) ELSE EmptyStr
    IN  IF get_all_workflows_raises(user_roles)
        THEN [called |-> FALSE, raised |-> TRUE, error |-> "user_roles must be a non-empty tuple",
              skill |-> NoneStr, workflow_id |-> NoneId]
        ELSE IF response.raises
        THEN [called |-> TRUE, raised |-> TRUE, error |-> "client.chat raised",
              skill |-> NoneStr, workflow_id |-> NoneId]
        ELSE [called |-> TRUE, raised |-> FALSE, error |-> "",
              skill |-> IF skill \in Routes THEN skill ELSE <<"other">>,
              workflow_id |-> response.workflow_id]

\* _classify_skill: whether the completion service was called, whether the
\* call raised, and the pair (skill, workflow_id) returned when it did not
_classify_skill(response, user_roles) ==
    LET skill == IF response.has_skill THEN strip(response.skill) ELSE strip(EmptyStr)
        failed(called, error) ==
            [called |-> called, raised |-> TRUE, error |-> error,
             skill |-> NoneStr, workflow_id |-> NoneId]
    IN  IF get_all_workflows_raises(user_roles)
        THEN failed(FALSE, "user_roles must be a non-empty tuple")
        ELSE IF response.raises
        THEN failed(TRUE, "client.chat raised")
        ELSE IF response.has_skill /\ response.skill_null
        THEN failed(TRUE, "'NoneType' object has no attribute 'strip'")
        ELSE IF skill \in Routes
        THEN [called |-> TRUE, raised |-> FALSE, error |-> "",
              skill |-> skill, workflow_id |-> response.workflow_id]
        ELSE failed(TRUE, "Unrecognized skill")

\* A variant of _cast_to_agent_state that also resets is_new_conversation to
\* the dataclass default
_cast_to_agent_state_resets(result, base) ==
    [base EXCEPT !.task_state = IF "task_state" \in result.keys THEN result.task_state ELSE @,
                 !.output = IF "output" \in result.keys THEN result.output ELSE @,
                 !.context_id = IF "context_id" \in result.keys THEN result.context_id ELSE @,
                 !.task_id = IF "task_id" \in result.keys THEN result.task_id ELSE @,
                 !.is_new_conversation = TRUE]

\* A variant of _cast_to_agent_state that builds the state from the result
\* alone: the ids that the result does not name fall back to the dataclass
\* defaults
_cast_to_agent_state_rebuilds(result, base) ==
    [base EXCEPT !.task_state = IF "task_state" \in result.keys THEN result.task_state ELSE @,
                 !.output = IF "output" \in result.keys THEN result.output ELSE @,
                 !.context_id = IF "context_id" \in result.keys THEN result.context_id ELSE NoneId,
                 !.task_id = IF "task_id" \in result.keys THEN result.task_id ELSE 0]

\* _cast_to_agent_state, lines 142-146: every key of result that base has as
\* an attribute is set on base, the others are passed over.  The keys the run
\* results of this model hold are task_state, output, context_id and task_id
\* (fields of AgentState), mark_end (a method of AgentState, which hasattr
\* finds too; see mark_end_raises) and foo (no attribute).
_cast_to_agent_state(result, base) ==
    [base EXCEPT !.task_state = IF "task_state" \in result.keys THEN result.task_state ELSE @,
                 !.output = IF "output" \in result.keys THEN result.output ELSE @,
                 !.context_id = IF "context_id" \in result.keys THEN result.context_id ELSE @,
                 !.task_id = IF "task_id" \in result.keys THEN result.task_id ELSE @]

\* agent_state.mark_end(), lines 179 and 223, right after the cast: when the
\* result held a key mark_end the cast has put the result's value in the place
\* of the method, and calling it raises
mark_end_raises(result) == "mark_end" \in result.keys

\* _create_message: the message's task and context id, or raised.  With
\* for_partial the local agent_response is read (line 172) without having been
\* assigned (it is assigned on the other branch only), which raises.
_create_message(agent_state, for_partial) ==
    [raised |-> for_partial,
     task_id |-> agent_state.task_id,
     context_id |-> agent_state.context_id]

-----------------------------------------------------------------------------
(* JSON-like values and path expressions (Utilities) *)

\* A JSON-like value: t is its type, v the chunks of a string or number, items
\* the entries of a map (key and value, in key order) or of a list (the key is
\* "" there).  None is the value of type "null".
Scalar(t, v) == [t |-> t, v |-> v, items |-> <<>>]
Str(s) == Scalar("str", <<s>>)
Num(n) == Scalar("num", <<n>>)
Bool(b) == Scalar("bool", <<b>>)
None == Scalar("null", <<>>)
Pair(k, val) == [k |-> k, val |-> val]
Map(pairs) == [t |-> "map", v |-> <<>>, items |-> pairs]
List(vals) == [t |-> "list", v |-> <<>>, items |-> [i \in 1..Len(vals) |-> Pair("", vals[i])]]

\* Python's `not x` for a value: None, an empty string, list or map
Falsy(x) == x = None \/ (x.t = "str" /\ x.v = <<>>) \/ (x.t \in {"map", "list"} /\ x.items = <<>>)

\* dict.get / `key in dict` on a map
Has(map, key) == \E i \in DOMAIN map.items : map.items[i].k = key
Get(map, key) == map.items[CHOOSE i \in DOMAIN map.items : map.items[i].k = key].val

\* The values of a map or a list, in order
Values(x) == [i \in DOMAIN x.items |-> x.items[i].val]

\* Sequences over a set with at most n elements
SeqsUpTo(set, n) == UNION { [1..m -> set] : m \in 0..n }

\* The chunks of a path expression: "$", ".", "..", "[*]", "[?(@.", "==", ")]"
\* and names
PathMarks == {"$", ".", "..", "[*]", "[?(@.", "==", ")]"}

-----------------------------------------------------------------------------
(* Events, the workflow run and the turn *)

\* The Task event new_task builds, and a TaskStatusUpdateEvent
TaskEvent(task_id, context_id) ==
    [kind |-> "task", state |-> "submitted", final |-> FALSE,
     task_id |-> task_id, context_id |-> context_id]
TaskStatusUpdateEvent(state, final, task_id, context_id) ==
    [kind |-> "status", state |-> state, final |-> final,
     task_id |-> task_id, context_id |-> context_id]

\* What the workflow run main(agent_state) hands back: it raises, or a result
\* dict holding some of the keys task_state and output.
TaskStates == {input_required, completed, working}
RunResults ==
    { [raises |-> TRUE, keys |-> {}, task_state |-> completed, output |-> {},
       context_id |-> NoneId, task_id |-> 0] }
    \cup { [raises |-> FALSE, keys |-> {"output"}, task_state |-> completed, output |-> o,
             context_id |-> NoneId, task_id |-> 0] : o \in Outputs }
    \cup { [raises |-> FALSE, keys |-> {"task_state", "output"}, task_state |-> ts, output |-> o,
             context_id |-> NoneId, task_id |-> 0] :
             ts \in TaskStates, o \in Outputs }

\* The partial states the run passes to the streaming callback: a dict
\* {node: fragment} whose fragment may hold a status, an empty dict, a dict
\* whose fragment is not a map, or a value that is not a dict
PartialStates ==
    { [is_dict |-> TRUE,  empty |-> FALSE, fragment_is_map |-> TRUE,  has_status |-> TRUE,  status |-> "step_done"],
      [is_dict |-> TRUE,  empty |-> FALSE, fragment_is_map |-> TRUE,  has_status |-> FALSE, status |-> ""],
      [is_dict |-> TRUE,  empty |-> TRUE,  fragment_is_map |-> FALSE, has_status |-> FALSE, status |-> ""],
      [is_dict |-> TRUE,  empty |-> FALSE, fragment_is_map |-> FALSE, has_status |-> FALSE, status |-> ""],
      [is_dict |-> FALSE, empty |-> FALSE, fragment_is_map |-> FALSE, has_status |-> FALSE, status |-> ""] }

\* A variant of main_after_callback in which a failure of the callback ends
\* the run
main_after_callback_propagates(raised) ==
    IF raised THEN [pc |-> "failed", error |-> "stream_callback raised"]
    ELSE [pc |-> "main", error |-> ""]

\* The run after one call of call_back_function: it logs a failure of the
\* callback and goes on with its next step
main_after_callback(raised) == [pc |-> "main", error |-> ""]

\* Placeholders for "the completion service was not asked" and "main has not
\* returned"
NoResponse == [raises |-> TRUE, has_skill |-> FALSE, skill_null |-> FALSE, skill |-> <<>>, workflow_id |-> NoneId]
NoResult == [raises |-> TRUE, keys |-> {}, task_state |-> completed, output |-> {},
             context_id |-> NoneId, task_id |-> 0]

\* A request slot at rest.  The last four fields record, for the properties,
\* what the turn met: whether the store held a row for its context id when it
\* was loaded, the completion service's answer, and the run's result.
IdleTurn ==
    [pc |-> "idle", method |-> "",
     message |-> [user_input |-> <<>>, is_data |-> FALSE, data_keys |-> {}, data_input |-> <<>>],
     context_id |-> NoneId, task_id |-> 0, current_task |-> 0,
     state |-> get_initial_state, steps |-> 0, error |-> "",
     stored_before |-> FALSE, asked |-> FALSE, response |-> NoResponse, result |-> NoResult]

\* Per context id, for the properties: the turns started, the calls of the
\* completion service, the classifications that returned a route, the route
\* the first of them returned, and whether the last run that returned paused
\* for user input, with the workflow id its turn ended with
NoHist == [turns |-> 0, classifier_calls |-> 0, classifications |-> 0, first_skill |-> NoneStr,
           paused |-> FALSE, paused_workflow_id |-> NoneId]

\* The workflow tables and the workflow service before any call: the ids of
\* the workflows and the roles of their access lists; no workflow is visible
\* to any role, none has steps or exit keywords; no WorkflowService has been
\* created and the lru caches are empty
Workflows == {"w1", "w2", "w3"}
Roles == {"admin", "ops"}
NoService ==
    [access |-> [w \in Workflows |-> {}], steps |-> <<>>, exit_keywords |-> <<>>,
     instances |-> 0, cache |-> <<>>,
     op |-> "none", user_roles |-> <<>>, failed |-> {}, queried |-> <<>>,
     raised |-> FALSE, hit |-> FALSE, result |-> <<>>]

\* Python's None as the result of get_steps_by_workflow_id
NoWorkflow == [workflow_id |-> NoneId, access_roles |-> {}, workflow_exit_keywords |-> <<>>, steps |-> <<>>]

\* No workflow selected yet
NoRun == [status |-> "AWAITING_ROUTE", workflow |-> NoWorkflow, step |-> 0, executed |-> <<>>,
          inputs |-> 0, last_input |-> <<>>, exited |-> FALSE]

\* Postgress before execute_query is called
NoQuery == [pc |-> "idle", op |-> "none", retries |-> 0, attempt |-> 0, outcomes |-> <<>>,
            conn |-> "unset", error |-> "", fetch |-> FALSE, rows |-> "unset", queries |-> 0]

Init ==
    /\ turn = [t \in Slots |-> IdleTurn]
    /\ event_queue = [t \in Slots |-> <<>>]
    /\ calls = [t \in Slots |-> <<>>]
    /\ agent_trace = NoTrace
    /\ chat_session = [k \in Contexts \X Users |-> NoRow]
    /\ task_store = {}
    /\ hist = [c \in Contexts |-> NoHist]
    /\ turns = 0
    /\ resolver = [op |-> "none", data |-> Scalar("null", <<>>), json_path |-> <<>>,
                   tool_input |-> Scalar("null", <<>>), result |-> Scalar("null", <<>>)]
    /\ workflow_service = NoService
    /\ workflow_run = NoRun
    /\ postgress = NoQuery

\* The task states after which the request handler accepts no further message
\* for a task
TerminalStates == {completed, "canceled", "failed", "rejected"}

\* The tasks of a context the request handler can hand over as current_task:
\* those it has stored for the context id that are not in a terminal state
TasksOf(context_id) ==
    { k.task_id : k \in { x \in task_store : x.context_id = context_id /\ x.state \notin TerminalStates } }

\* The task store after the request handler has consumed `events`: a Task
\* event stores the task, a status update sets the state of its task
RECURSIVE consume(_, _)
consume(store, events) ==
    IF events = <<>> THEN store
    ELSE LET e == Head(events)
             others == { x \in store : x.task_id # e.task_id }
         IN  consume(others \cup {[task_id |-> e.task_id, context_id |-> e.context_id, state |-> e.state]},
                     Tail(events))

\* execute, lines 62-67, and _create_agent_state, lines 107-109: a request
\* arrives, the token is read from the header and get_user_info is called.
\* current_task = 0 stands for "no current task".
execute(t, contexts) ==
    /\ turn[t].pc \in {"idle", "done", "failed"}
    /\ turns < MaxTurns
    /\ \E context_id \in contexts, method \in Methods, header \in Headers, message \in Messages :
         \E current_task \in {0} \cup TasksOf(context_id) :
            /\ turn' = [turn EXCEPT ![t] =
                  [pc |-> "get_user_info", method |-> method,
                   message |-> message, context_id |-> context_id,
                   task_id |-> IF current_task = 0 THEN turns + 1 ELSE current_task,
                   current_task |-> current_task,
                   state |-> [get_initial_state EXCEPT !.token = strip(Replace(header, BEARER))],
                   steps |-> 0, error |-> "",
                   stored_before |-> FALSE, asked |-> FALSE, response |-> NoResponse,
                   result |-> NoResult]]
            /\ hist' = [hist EXCEPT ![context_id].turns = @ + 1]
    /\ event_queue' = [event_queue EXCEPT ![t] = <<>>]
    /\ calls' = [calls EXCEPT ![t] = <<"get_user_info">>]
    /\ turns' = turns + 1
    /\ UNCHANGED <<agent_trace, chat_session, task_store, resolver, workflow_service, workflow_run, postgress>>

\* A variant of _create_agent_state that makes the new task before it
\* validates the state
_create_agent_state_task_first(t, info) ==
    LET r == get_user_info(info)
        m == turn[t].message
        text == IF m.user_input # <<>> THEN strip(m.user_input) ELSE EmptyStr
        s1 == [turn[t].state EXCEPT
                 !.user_id = r.user_id,
                 !.user_roles = r.user_roles,
                 !.input = IF m.is_data /\ "input" \in m.data_keys THEN m.data_input ELSE text,
                 !.input_data_keys = IF m.is_data THEN m.data_keys ELSE {},
                 !.context_id = turn[t].context_id,
                 !.task_id = turn[t].task_id,
                 !.is_new_conversation = FALSE,
                 !.workflow_id = NoneId]
        v == _validate_state(s1)
        new == turn[t].current_task = 0
    IN  IF r.raised
        THEN [raised |-> TRUE, state |-> turn[t].state, new_task |-> FALSE,
              error |-> "User ID or User Roles could not be retrieved. Unauthorized access."]
        ELSE IF v # "ok"
        THEN [raised |-> TRUE, error |-> v, state |-> s1, new_task |-> new]
        ELSE [raised |-> FALSE, error |-> "",
              state |-> [s1 EXCEPT !.is_new_conversation = new], new_task |-> new]

\* _create_agent_state, lines 109-140, once get_user_info has answered `info`:
\* the state it returns, or the error it raises, and whether it made a new task
_create_agent_state(t, info) ==
    LET r == get_user_info(info)
        m == turn[t].message
        text == IF m.user_input # <<>> THEN strip(m.user_input) ELSE EmptyStr
        s1 == [turn[t].state EXCEPT
                 !.user_id = r.user_id,
                 !.user_roles = r.user_roles,
                 !.input = IF m.is_data /\ "input" \in m.data_keys THEN m.data_input ELSE text,
                 !.input_data_keys = IF m.is_data THEN m.data_keys ELSE {},
                 !.context_id = turn[t].context_id,
                 !.task_id = turn[t].task_id,
                 !.is_new_conversation = FALSE,
                 !.workflow_id = NoneId]
        v == _validate_state(s1)
        new == turn[t].current_task = 0
    IN  IF r.raised
        THEN [raised |-> TRUE, state |-> turn[t].state, new_task |-> FALSE,
              error |-> "User ID or User Roles could not be retrieved. Unauthorized access."]
        ELSE IF v # "ok"
        THEN [raised |-> TRUE, error |-> v, state |-> s1, new_task |-> FALSE]
        ELSE [raised |-> FALSE, error |-> "",
              state |-> [s1 EXCEPT !.is_new_conversation = new], new_task |-> new]

\* A variant of append_user_turn that assigns the conversation a list holding
\* the user's entry instead of appending to it
append_user_turn_assigns(state) ==
    LET s1 == [state EXCEPT !.conversation = <<UserEntry(state.input)>>]
        cs == s1.current_state
        cs2 == IF "messages" \in cs.keys
               THEN [cs EXCEPT !.messages = Append(@, UserEntry(state.input))]
               ELSE cs
    IN  IF ~state.is_new_conversation
        THEN [s1 EXCEPT !.current_state = cs2,
                        !.messages = IF "messages" \in cs2.keys THEN cs2.messages ELSE <<>>,
                        !.selected_skill = IF "selected_skill" \in cs2.keys
                                           THEN cs2.selected_skill ELSE EmptyStr]
        ELSE s1

\* execute, lines 76-83, on the loaded state: the user's entry is appended to
\* the conversation and, on a continuing conversation, to the stored messages
\* (the list held by current_state, when it holds one)
append_user_turn(state) ==
    LET s1 == [state EXCEPT !.conversation = Append(@, UserEntry(state.input))]
        cs == s1.current_state
        cs2 == IF "messages" \in cs.keys
               THEN [cs EXCEPT !.messages = Append(@, UserEntry(state.input))]
               ELSE cs
    IN  IF ~state.is_new_conversation
        THEN [s1 EXCEPT !.current_state = cs2,
                        !.messages = IF "messages" \in cs2.keys THEN cs2.messages ELSE <<>>,
                        !.selected_skill = IF "selected_skill" \in cs2.keys
                                           THEN cs2.selected_skill ELSE EmptyStr]
        ELSE s1

\* execute, lines 67-91, from the answer of get_user_info up to the call of
\* main: where the turn stands afterwards and what it did on the way.
\* `first` is the user whose row the SELECT returns first, `response` the
\* completion service's answer should the classifier be asked.
execute_until_main(t, info, first, response) ==
    LET c == _create_agent_state(t, info)
        s2 == c.state
        ev == IF c.new_task THEN <<TaskEvent(s2.task_id, s2.context_id)>> ELSE <<>>
        trace == AgentTrace(s2.context_id, s2.user_id)
        s3 == load_agent_session(s2, trace, first)
        s4 == append_user_turn(s3)
        k == _classify_skill(response, s4.user_roles)
        s5 == IF s4.is_new_conversation
              THEN [s4 EXCEPT !.selected_skill = k.skill, !.workflow_id = k.workflow_id]
              ELSE s4
        asked == IF ~s4.is_new_conversation THEN <<>>
                 ELSE IF k.called THEN <<"get_all_workflows", "client.chat">>
                 ELSE <<"get_all_workflows">>
        base == [pc |-> "failed", error |-> c.error, state |-> s2, events |-> ev,
                 called |-> <<>>, trace |-> agent_trace, table |-> chat_session,
                 classifier_called |-> FALSE]
    IN  IF c.raised
        THEN base
        ELSE IF Unauthorized(s2.user_id, s2.user_roles)
        THEN [base EXCEPT
                !.error = "User ID or User Roles could not be retrieved. Unauthorized access."]
        ELSE IF s4.is_new_conversation /\ k.raised
        THEN [base EXCEPT !.error = k.error, !.state = s4,
                !.called = <<"load_agent_session">> \o asked, !.trace = trace,
                !.classifier_called = k.called]
        ELSE [pc |-> "main", error |-> "", state |-> s5, events |-> ev,
              called |-> <<"load_agent_session">> \o asked \o <<"save_agent_session", "main">>,
              trace |-> trace,
              table |-> save_agent_session(chat_session, trace, s5),
              classifier_called |-> s4.is_new_conversation]

\* Whether the turn gets as far as asking the completion service
classifier_asked(t, info) ==
    LET c == _create_agent_state(t, info)
    IN  ~c.raised /\ c.state.is_new_conversation /\ ~get_all_workflows_raises(c.state.user_roles)

\* The answer of get_user_info arrives and execute runs on to the call of main
\* (or to the error it raises).  The row that comes first is any of the rows
\* selected; the completion service answers only when it is asked.
get_user_info_returns(t) ==
    /\ turn[t].pc = "get_user_info"
    /\ \E info \in UserInfos :
       \E first \in (IF SelectRows(AgentTrace(turn[t].context_id, NoneId)) = {} THEN {NoneId}
                     ELSE SelectRows(AgentTrace(turn[t].context_id, NoneId))) :
       \E response \in (IF classifier_asked(t, info) THEN ClassifierResponses
                         ELSE {NoResponse}) :
         LET o == execute_until_main(t, info, first, response)
             ctx == turn[t].context_id
         IN  /\ turn' = [turn EXCEPT ![t].pc = o.pc, ![t].error = o.error, ![t].state = o.state,
                                      ![t].stored_before = SelectRows(AgentTrace(ctx, NoneId)) # {},
                                      ![t].asked = o.classifier_called,
                                      ![t].response = IF o.classifier_called THEN response ELSE NoResponse]
             /\ event_queue' = [event_queue EXCEPT ![t] = @ \o o.events]
             /\ calls' = [calls EXCEPT ![t] = @ \o o.called]
             /\ agent_trace' = o.trace
             /\ chat_session' = o.table
             /\ task_store' = consume(task_store, o.events)
             /\ hist' = IF o.classifier_called
                        THEN [hist EXCEPT ![ctx].classifier_calls = @ + 1,
                                          ![ctx].classifications = IF o.pc = "main" THEN @ + 1 ELSE @,
                                          ![ctx].first_skill =
                                              IF @ = NoneStr /\ o.pc = "main"
                                              THEN o.state.selected_skill ELSE @]
                        ELSE hist
    /\ UNCHANGED <<turns, resolver, workflow_service, workflow_run, postgress>>

\* stream_callback, lines 206-216: the run calls back after a step with a
\* partial state.  Lines 209-211 take the status over; they raise on an empty
\* dict (next on an empty iterator) and on a fragment without get.  Then
\* _create_message is asked for a partial message; when either raises,
\* update_status is not reached and the callback raises into the run.
stream_callback(t) ==
    /\ turn[t].pc = "main"
    /\ turn[t].method = "message/stream"
    /\ turn[t].steps < MaxSteps
    /\ \E partial_state \in PartialStates :
         LET fragment_raises == partial_state.is_dict
                                  /\ (partial_state.empty \/ ~partial_state.fragment_is_map)
             s1 == [turn[t].state EXCEPT
                      !.status = IF partial_state.is_dict /\ ~fragment_raises /\ partial_state.has_status
                                 THEN partial_state.status ELSE @]
             message == _create_message(s1, TRUE)
             raised == fragment_raises \/ message.raised
             run == main_after_callback(raised)
         IN  /\ turn' = [turn EXCEPT ![t].state = s1, ![t].steps = @ + 1,
                                      ![t].pc = run.pc, ![t].error = run.error]
             /\ event_queue' = [event_queue EXCEPT ![t] =
                   IF raised THEN @
                   ELSE Append(@, TaskStatusUpdateEvent(working, FALSE, turn[t].task_id, turn[t].context_id))]
    /\ UNCHANGED <<calls, agent_trace, chat_session, task_store, hist, turns, resolver,
                   workflow_service, workflow_run, postgress>>

\* A variant of final_flag that compares with the name of the enum member
\* instead of its value
final_flag_by_name(task_state) == ~(task_state = "input_required")

\* The final flag of _run_workflow_without_streaming, lines 182-184
final_flag(task_state) == ~(task_state = input_required)

\* _run_workflow_without_streaming, lines 178-203, on the run's result: the
\* events it enqueues and the state it saves
_run_workflow_without_streaming(agent_state, result) ==
    LET s1 == _cast_to_agent_state(result, agent_state)
        message == _create_message(s1, FALSE)
        final == final_flag(s1.task_state)
        update == TaskStatusUpdateEvent(s1.task_state, final, message.task_id, message.context_id)
        s2 == [s1 EXCEPT !.conversation = Append(@, AgentEntry(s1.output))]
        s3 == [s2 EXCEPT !.current_state =
                 CurrentState({"messages", "selected_skill"}, s2.messages, s2.selected_skill)]
    IN  [state |-> s3,
         events |-> <<update,
                      TaskStatusUpdateEvent(s1.task_state, final, s1.task_id, s1.context_id)>>]

\* A variant of _run_workflow_with_streaming whose last update is another
\* working update, as the callback's
_run_workflow_with_streaming_working(agent_state, result) ==
    LET s1 == _cast_to_agent_state(result, agent_state)
        s2 == [s1 EXCEPT !.conversation = Append(@, AgentEntry(s1.output))]
        s3 == [s2 EXCEPT !.current_state = CurrentState({"messages"}, s2.messages, EmptyStr)]
    IN  [state |-> s3,
         events |-> <<TaskStatusUpdateEvent(working, FALSE, s1.task_id, s1.context_id)>>]

\* _run_workflow_with_streaming, lines 222-230, on the run's result
_run_workflow_with_streaming(agent_state, result) ==
    LET s1 == _cast_to_agent_state(result, agent_state)
        s2 == [s1 EXCEPT !.conversation = Append(@, AgentEntry(s1.output))]
        s3 == [s2 EXCEPT !.current_state = CurrentState({"messages"}, s2.messages, EmptyStr)]
    IN  [state |-> s3,
         events |-> <<TaskStatusUpdateEvent(completed, TRUE, s1.task_id, s1.context_id)>>]

\* main returns (or raises) and the rest of the turn runs: the result is
\* patched onto the state and the updates are enqueued.  With streaming the
\* session is saved through self.agent_trace before the update (lines 225-230);
\* without, the coroutine awaits the enqueueing of its updates (lines 186,
\* 199) before it saves (lines 201-203).
main_returns_with(t, results) ==
    /\ turn[t].pc = "main"
    /\ \E result \in results :
         LET stream == turn[t].method = "message/stream"
             o == IF stream
                  THEN _run_workflow_with_streaming(turn[t].state, result)
                  ELSE _run_workflow_without_streaming(turn[t].state, result)
         IN  IF result.raises \/ mark_end_raises(result)
             THEN /\ turn' = [turn EXCEPT ![t].pc = "failed",
                                           ![t].error = IF result.raises THEN "main raised"
                                                        ELSE "mark_end raised",
                                           ![t].result = result]
                  /\ UNCHANGED <<event_queue, chat_session, task_store, hist>>
             ELSE /\ turn' = [turn EXCEPT
                                 ![t].pc = IF stream THEN "done" ELSE "update_sent",
                                 ![t].state = IF stream THEN o.state
                                              ELSE _cast_to_agent_state(result, turn[t].state),
                                 ![t].result = result]
                  /\ event_queue' = [event_queue EXCEPT ![t] = @ \o o.events]
                  /\ chat_session' = IF stream
                                     THEN save_agent_session(chat_session, agent_trace, o.state)
                                     ELSE chat_session
                  /\ task_store' = consume(task_store, o.events)
                  /\ hist' = [hist EXCEPT ![turn[t].context_id].paused =
                                              o.state.task_state = input_required,
                                          ![turn[t].context_id].paused_workflow_id =
                                              o.state.workflow_id]
    /\ UNCHANGED <<calls, agent_trace, turns, resolver, workflow_service, workflow_run, postgress>>

\* The turn's end on the run results of the sequential handler
main_returns(t) == main_returns_with(t, RunResults)

\* _run_workflow_without_streaming, lines 201-203, after its updates were
\* enqueued: the agent's reply is appended to the conversation, the current
\* state is set and the session is saved through self.agent_trace
save_after_update(t) ==
    /\ turn[t].pc = "update_sent"
    /\ LET o == _run_workflow_without_streaming(turn[t].state, turn[t].result)
       IN  /\ turn' = [turn EXCEPT ![t].pc = "done", ![t].state = o.state]
           /\ chat_session' = save_agent_session(chat_session, agent_trace, o.state)
    /\ UNCHANGED <<event_queue, calls, agent_trace, task_store, hist, turns, resolver,
                   workflow_service, workflow_run, postgress>>

Next ==
    \E t \in SeqSlots :
        \/ execute(t, SeqContexts)
        \/ get_user_info_returns(t)
        \/ stream_callback(t)
        \/ main_returns(t)
        \/ save_after_update(t)

Spec == Init /\ [][Next]_vars

\* Two requests in flight on the one executor instance, each on its own
\* context id and for its own user; their coroutines interleave at the awaits
\* of get_user_info and of main.  Each request carries a token and the text
\* " hi ", and the completion service answers "workflow" when it answers.
SlotContext(t) == IF t = 1 THEN "c1" ELSE "c2"
SlotUser(t) == IF t = 1 THEN "u1" ELSE "u2"

NextConcurrent ==
    \E t \in Slots :
        \/ /\ execute(t, {SlotContext(t)})
           /\ turn'[t].message.user_input # <<>>
           /\ turn'[t].state.token # EmptyStr
        \/ /\ get_user_info_returns(t)
           /\ turn'[t].state.user_id = SlotUser(t)
           /\ turn'[t].asked => turn'[t].response.skill = <<"workflow">>
        \/ stream_callback(t)
        \/ main_returns(t)
        \/ save_after_update(t)

SpecConcurrent == Init /\ [][NextConcurrent]_vars

\* One turn whose run hands back any result dict over the keys task_state,
\* output, context_id, task_id, mark_end and foo.  The ids a result holds are
\* those of the request of the first turn ("c1", 1) or others ("c2", 2).
CastKeys == {"task_state", "output", "context_id", "task_id", "mark_end", "foo"}
CastResults ==
    { [raises |-> FALSE, keys |-> keys, task_state |-> ts, output |-> o,
       context_id |-> context_id, task_id |-> task_id] :
          keys \in SUBSET CastKeys, ts \in {input_required, completed}, o \in Outputs,
          context_id \in {"c1", "c2"}, task_id \in {1, 2} }

NextCast ==
    \E t \in SeqSlots :
        \/ /\ turns = 0
           /\ execute(t, {"c1"})
        \/ get_user_info_returns(t)
        \/ main_returns_with(t, CastResults)
        \/ save_after_update(t)

SpecCast == Init /\ [][NextCast]_vars

-----------------------------------------------------------------------------
(* The path resolver: Utilities._resolve_recursive_reference,                *)
(* _handle_complex_filter, extract_json_path_value, resolve_jsonpath_in_params *)

\* Substring tests on a path expression
Contains(path, mark) == \E i \in DOMAIN path : path[i] = mark
StartsWith(path, a, bs) == Len(path) >= 2 /\ path[1] = a /\ path[2] \in bs
ContainsDollarDot(path) ==
    \E i \in DOMAIN path : i < Len(path) /\ path[i] = "$" /\ path[i + 1] \in {".", ".."}

\* The first position from `from` on whose chunk is in marks (0: none)
FirstOf(path, marks, from) ==
    IF \E i \in from..Len(path) : path[i] \in marks
    THEN CHOOSE i \in from..Len(path) :
             path[i] \in marks /\ \A j \in from..(i - 1) : path[j] \notin marks
    ELSE 0

\* dict.get(name) for a name given by its chunks: a name of several chunks
\* holds a "." and is no key of the data modelled
HasName(map, name) == Len(name) = 1 /\ Has(map, name[1])
GetName(map, name) == Get(map, name[1])

\* find_field_recursive, lines 53-63: a map's own field first, then the
\* matches inside its values in key order; a list's items in index order
RECURSIVE find_field_recursive(_, _), find_field_in_values(_, _)
find_field_recursive(obj, field) ==
    IF obj.t = "map"
    THEN (IF HasName(obj, field) THEN <<GetName(obj, field)>> ELSE <<>>)
            \o find_field_in_values(Values(obj), field)
    ELSE IF obj.t = "list"
    THEN find_field_in_values(Values(obj), field)
    ELSE <<>>
find_field_in_values(vals, field) ==
    IF vals = <<>> THEN <<>>
    ELSE find_field_recursive(Head(vals), field) \o find_field_in_values(Tail(vals), field)

\* A variant of _resolve_recursive_reference that returns the last match
_resolve_recursive_reference_last(data, ref_path) ==
    LET field_name == SubSeq(ref_path, 3, Len(ref_path))
        results == IF StartsWith(ref_path, "$", {".."}) THEN find_field_recursive(data, field_name)
                   ELSE IF HasName(data, field_name) THEN <<GetName(data, field_name)>> ELSE <<>>
    IN  IF ~StartsWith(ref_path, "$", {".", ".."}) THEN [raised |-> FALSE, value |-> None]
        ELSE IF StartsWith(ref_path, "$", {"."}) /\ data.t # "map"
        THEN [raised |-> data.t \notin {"list", "str"}
                           \/ \E i \in DOMAIN data.items : data.items[i].val = Scalar("str", field_name),
              value |-> None]
        ELSE [raised |-> FALSE,
              value |-> IF results # <<>> THEN results[Len(results)] ELSE None]

\* _resolve_recursive_reference: the value it returns, or that it raised
\* ('$.field' on data that is not a map: `in` or .get fails)
_resolve_recursive_reference(data, ref_path) ==
    LET field_name == SubSeq(ref_path, 3, Len(ref_path))
        results == IF StartsWith(ref_path, "$", {".."}) THEN find_field_recursive(data, field_name)
                   ELSE IF HasName(data, field_name) THEN <<GetName(data, field_name)>> ELSE <<>>
    IN  IF ~StartsWith(ref_path, "$", {".", ".."}) THEN [raised |-> FALSE, value |-> None]
        ELSE IF StartsWith(ref_path, "$", {"."}) /\ data.t # "map"
        THEN [raised |-> data.t \notin {"list", "str"}
                           \/ \E i \in DOMAIN data.items : data.items[i].val = Scalar("str", field_name),
              value |-> None]
        ELSE [raised |-> FALSE,
              value |-> IF results # <<>> THEN results[1] ELSE None]

\* re.match(filter_pattern, json_path), line 85-86:
\* $.<array>[?(@.<field> == <$.ref or $..ref>)].<target>
filter_pattern(json_path) ==
    LET i == FirstOf(json_path, {"[?(@.", "[*]"}, 1)
        j == IF i = 0 THEN 0 ELSE FirstOf(json_path, {"=="}, i + 1)
        k == IF j = 0 THEN 0 ELSE FirstOf(json_path, {")]", "[*]"}, j + 1)
        n == Len(json_path)
        ok == /\ StartsWith(json_path, "$", {"."})
              /\ i > 3 /\ json_path[i] = "[?(@."
              /\ j > i + 1
              /\ k > j + 3 /\ json_path[k] = ")]"
              /\ json_path[j + 1] = "$" /\ json_path[j + 2] \in {".", ".."}
              /\ n >= k + 2 /\ json_path[k + 1] = "."
    IN  IF ok
        THEN [ok |-> TRUE,
              array_field |-> SubSeq(json_path, 3, i - 1),
              filter_field |-> SubSeq(json_path, i + 1, j - 1),
              reference_path |-> SubSeq(json_path, j + 1, k - 1),
              target_field |-> SubSeq(json_path, k + 2, n)]
        ELSE [ok |-> FALSE, array_field |-> <<>>, filter_field |-> <<>>,
              reference_path |-> <<>>, target_field |-> <<>>]

\* The loop of _handle_complex_filter, lines 112-118: the targets that are
\* not None of the items that are maps and whose filter field equals the
\* reference value, in the array's order
RECURSIVE filter_targets(_, _, _, _)
filter_targets(array_data, filter_field, reference_value, target_field) ==
    IF array_data = <<>> THEN <<>>
    ELSE LET item == Head(array_data)
             hit == /\ item.t = "map"
                    /\ HasName(item, filter_field)
                    /\ GetName(item, filter_field) = reference_value
             target_value == IF hit /\ HasName(item, target_field)
                             THEN GetName(item, target_field) ELSE None
         IN  (IF hit /\ target_value # None THEN <<target_value>> ELSE <<>>)
                \o filter_targets(Tail(array_data), filter_field, reference_value, target_field)

\* A variant of _handle_complex_filter that stops at the first matching item
_handle_complex_filter_first(data, json_path) ==
    LET match == filter_pattern(json_path)
        array_data == IF HasName(data, match.array_field)
                      THEN GetName(data, match.array_field) ELSE List(<<>>)
        reference == _resolve_recursive_reference(data, match.reference_path)
        results == filter_targets(Values(array_data), match.filter_field,
                                  reference.value, match.target_field)
    IN  IF ~match.ok THEN <<>>
        ELSE IF data.t # "map" THEN <<>>
        ELSE IF array_data.t # "list" THEN <<>>
        ELSE IF reference.raised \/ reference.value = None THEN <<>>
        ELSE IF results = <<>> THEN <<>> ELSE <<results[1]>>

\* _handle_complex_filter: the list it returns ([] too when the pattern does
\* not match, when data.get raises on data that is not a map, when the array
\* field holds no list, and when the reference resolves to None)
_handle_complex_filter(data, json_path) ==
    LET match == filter_pattern(json_path)
        array_data == IF HasName(data, match.array_field)
                      THEN GetName(data, match.array_field) ELSE List(<<>>)
        reference == _resolve_recursive_reference(data, match.reference_path)
    IN  IF ~match.ok THEN <<>>
        ELSE IF data.t # "map" THEN <<>>
        ELSE IF array_data.t # "list" THEN <<>>
        ELSE IF reference.raised \/ reference.value = None THEN <<>>
        ELSE filter_targets(Values(array_data), match.filter_field,
                            reference.value, match.target_field)

\* jsonpath_ng parse, line 163, for the expressions modelled: a root "$" or a
\* leading field name, then steps ".name", "..name" and "[*]".  Anything else
\* raises.
RECURSIVE jsonpath_steps(_)
jsonpath_steps(path) ==
    IF path = <<>> THEN [ok |-> TRUE, steps |-> <<>>]
    ELSE IF path[1] = "[*]"
    THEN LET rest == jsonpath_steps(Tail(path))
         IN  [ok |-> rest.ok, steps |-> <<[op |-> "[*]", name |-> <<>>]>> \o rest.steps]
    ELSE IF path[1] \in {".", ".."} /\ Len(path) >= 2 /\ path[2] \notin PathMarks
    THEN LET rest == jsonpath_steps(SubSeq(path, 3, Len(path)))
         IN  [ok |-> rest.ok, steps |-> <<[op |-> path[1], name |-> <<path[2]>>]>> \o rest.steps]
    ELSE [ok |-> FALSE, steps |-> <<>>]

jsonpath_parse(path) ==
    IF path = <<>> THEN [ok |-> FALSE, steps |-> <<>>]
    ELSE IF path[1] = "$" THEN jsonpath_steps(Tail(path))
    ELSE IF path[1] \notin PathMarks THEN jsonpath_steps(<<".">> \o path)
    ELSE [ok |-> FALSE, steps |-> <<>>]

\* jsonpath_expr.find(data), line 165: the matched values in match order.
\* A field step matches in maps only; a descendant step matches a node's own
\* field and then inside its values; "[*]" matches the items of a list and
\* takes any other value that is not falsy as a list of one.
RECURSIVE jsonpath_step(_, _), jsonpath_find(_, _)
jsonpath_step(step, values) ==
    IF values = <<>> THEN <<>>
    ELSE LET x == Head(values)
             here == IF step.op = "." THEN (IF x.t = "map" /\ HasName(x, step.name)
                                            THEN <<GetName(x, step.name)>> ELSE <<>>)
                     ELSE IF step.op = ".." THEN find_field_recursive(x, step.name)
                     ELSE IF Falsy(x) THEN <<>>
                     ELSE IF x.t = "list" THEN Values(x)
                     ELSE <<x>>
         IN  here \o jsonpath_step(step, Tail(values))
jsonpath_find(steps, values) ==
    IF steps = <<>> THEN values
    ELSE jsonpath_find(Tail(steps), jsonpath_step(Head(steps), values))

\* A variant of single_or_list that returns the list of matches also when
\* there is one match only
single_or_list_always_list(results) ==
    IF results = <<>> THEN None ELSE List(results)

\* Lines 150-155 and 167-177: None for no match, the value for one match, the
\* list of the values for more
single_or_list(results) ==
    IF results = <<>> THEN None
    ELSE IF Len(results) = 1 THEN results[1]
    ELSE List(results)

\* The matches extract_json_path_value works on: those of the filter handler
\* for an expression holding '[?(@.', '$.' and '==' (line 146), else those of
\* jsonpath_ng, whose parser may raise
json_path_matches(data, json_path) ==
    IF Contains(json_path, "[?(@.") /\ ContainsDollarDot(json_path) /\ Contains(json_path, "==")
    THEN [raised |-> FALSE, results |-> _handle_complex_filter(data, json_path)]
    ELSE LET expr == jsonpath_parse(json_path)
         IN  IF expr.ok
             THEN [raised |-> FALSE, results |-> jsonpath_find(expr.steps, <<data>>)]
             ELSE [raised |-> TRUE, results |-> <<>>]

\* A variant of extract_json_path_value that takes a single match whose value
\* is falsy (false, 0, an empty string) for no match
extract_json_path_value_truthy(data, json_path) ==
    LET m == json_path_matches(data, json_path)
        falsy(x) == Falsy(x) \/ x \in {Bool("false"), Num("0")}
    IN  IF json_path = <<>> THEN None
        ELSE IF m.raised THEN None
        ELSE IF Len(m.results) = 1 /\ falsy(m.results[1]) THEN None
        ELSE single_or_list(m.results)

\* extract_json_path_value: None for an empty expression (line 139) and for
\* whatever raises inside (lines 179-182, 203-205)
extract_json_path_value(data, json_path) ==
    LET m == json_path_matches(data, json_path)
    IN  IF json_path = <<>> THEN None
        ELSE IF m.raised THEN None
        ELSE single_or_list(m.results)

\* is_jsonpath_expression, lines 215-235 (the patterns with '!=', '<' and '>'
\* need chunks no expression modelled holds)
is_jsonpath_expression(value) ==
    /\ value.t = "str"
    /\ \/ StartsWith(value.v, "$", {".", ".."})
       \/ StartsWith(value.v, "$", {"[*]", "[?(@."})
       \/ value.v = <<"$">>
       \/ Contains(value.v, "[?(@.")
       \/ (Contains(value.v, "==") /\ Contains(value.v, "$"))
       \/ Contains(value.v, "[*]")
       \/ (Contains(value.v, "..") /\ Contains(value.v, "$"))

\* A variant of resolve_value that returns what the expression resolved to,
\* None included
resolve_value_or_none(value, data) ==
    IF is_jsonpath_expression(value) THEN extract_json_path_value(data, value.v) ELSE value

\* resolve_value, lines 237-251
resolve_value(value, data) ==
    LET resolved == extract_json_path_value(data, value.v)
    IN  IF is_jsonpath_expression(value)
        THEN IF resolved # None THEN resolved ELSE value
        ELSE value

\* A variant of resolve_jsonpath_in_params that leaves out of a list the items
\* that did not resolve
RECURSIVE resolve_jsonpath_in_params_skips(_, _)
resolve_jsonpath_in_params_skips(tool_input, workflow_data) ==
    LET each(entry) ==
            IF entry.val.t \in {"map", "list"}
            THEN Pair(entry.k, resolve_jsonpath_in_params_skips(entry.val, workflow_data))
            ELSE Pair(entry.k, resolve_value(entry.val, workflow_data))
        all == [i \in DOMAIN tool_input.items |-> each(tool_input.items[i])]
    IN  IF tool_input.t = "map" THEN [tool_input EXCEPT !.items = all]
        ELSE IF tool_input.t = "list"
        THEN [tool_input EXCEPT !.items =
                 SelectSeq(all, LAMBDA e : ~is_jsonpath_expression(e.val))]
        ELSE IF tool_input.t = "str" THEN resolve_value(tool_input, workflow_data)
        ELSE tool_input

\* resolve_jsonpath_in_params, lines 254-282: a new map or list whose nested
\* maps and lists are resolved in turn and whose other values go through
\* resolve_value; a string is resolved; any other value is returned as it is
RECURSIVE resolve_jsonpath_in_params(_, _)
resolve_jsonpath_in_params(tool_input, workflow_data) ==
    LET each(entry) ==
            IF entry.val.t \in {"map", "list"}
            THEN Pair(entry.k, resolve_jsonpath_in_params(entry.val, workflow_data))
            ELSE Pair(entry.k, resolve_value(entry.val, workflow_data))
    IN  IF tool_input.t \in {"map", "list"}
        THEN [tool_input EXCEPT !.items = [i \in DOMAIN tool_input.items |-> each(tool_input.items[i])]]
        ELSE IF tool_input.t = "str" THEN resolve_value(tool_input, workflow_data)
        ELSE tool_input

-----------------------------------------------------------------------------
(* Calls of the path resolver *)

\* The items of a vehicles array: maps with soldOrderNumber and vin, one
\* without vin, one whose soldOrderNumber is null, and an item that is no map
Vehicle(sold, vin) == Map(<<Pair("soldOrderNumber", Str(sold)), Pair("vin", vin)>>)
VehicleItems ==
    { Vehicle("X", Str("V1")), Vehicle("Y", Str("V2")), Vehicle("X", Str("V3")),
      Map(<<Pair("soldOrderNumber", Str("X"))>>),
      Map(<<Pair("soldOrderNumber", None), Pair("vin", Str("V9"))>>),
      Str("X") }

\* Where the data holds selected_order
RefShapes == {"absent", "top", "null", "nested", "nested_first", "in_list", "null_first"}

WorkflowData(vehicles, shape) ==
    LET v == Pair("vehicles", List(vehicles))
        so(x) == Pair("selected_order", x)
        ctx(x) == Pair("ctx", Map(<<so(x)>>))
    IN  CASE shape = "absent"       -> Map(<<v>>)
          [] shape = "top"          -> Map(<<v, so(Str("X"))>>)
          [] shape = "null"         -> Map(<<v, so(None)>>)
          [] shape = "nested"       -> Map(<<ctx(Str("X")), v>>)
          [] shape = "nested_first" -> Map(<<ctx(Str("Y")), v, so(Str("X"))>>)
          [] shape = "in_list"      -> Map(<<Pair("orders", List(<<Map(<<so(Str("X"))>>)>>)), v>>)
          [] shape = "null_first"   -> Map(<<so(None), ctx(Str("X")), v>>)

\* The values of a field b: a number, the falsy values and null
LeafValues == { Num("5"), Num("0"), Bool("false"), Scalar("str", <<>>), None }

\* Data {a: {b: <value>}} and {a: {}}
Nested(pairs) == Map(<<Pair("a", Map(pairs))>>)
DescentData == { Nested(<<Pair("b", x)>>) : x \in LeafValues } \cup { Nested(<<>>) }

\* The data of a call: workflow data as above, data for a direct descent, and
\* data that is no map, or whose vehicles field is no list
DataValues ==
    { WorkflowData(vehicles, shape) : vehicles \in SeqsUpTo(VehicleItems, MaxVehicles), shape \in RefShapes }
    \cup DescentData
    \cup { List(<<Str("X")>>), Str("X"), None,
           Map(<<Pair("vehicles", Str("X")), Pair("selected_order", Str("X"))>>) }

\* The filter expressions: with the root prefix, with a direct reference,
\* without the prefix, and with a reference that is no path
Filter(prefix, ref) ==
    prefix \o <<"vehicles", "[?(@.", "soldOrderNumber", "==">> \o ref \o <<")]", ".", "vin">>

Paths ==
    { <<>>, <<"$">>, <<"hello">>, <<"vehicles">>,
      <<"$", ".", "selected_order">>, <<"$", ".", "ctx", ".", "selected_order">>,
      <<"$", ".", "nope">>, <<"$", ".", "a", ".", "b">>,
      <<"$", "..", "selected_order">>, <<"$", "..", "vin">>,
      <<"$", ".", "vehicles", "[*]">>, <<"$", ".", "vehicles", "[*]", ".", "vin">>,
      <<"$", ".">>, <<"$", "[?(@.">>, <<"$", ".", "vehicles", "==">>,
      Filter(<<"$", ".">>, <<"$", "..", "selected_order">>),
      Filter(<<"$", ".">>, <<"$", ".", "selected_order">>),
      Filter(<<"$", ".">>, <<"$", "..", "nope">>),
      Filter(<<>>, <<"$", "..", "selected_order">>),
      Filter(<<"$", ".">>, <<"selected_order">>) }

\* The templates of a call that hold the expression as a string leaf
Templates(json_path) ==
    LET leaf == Scalar("str", json_path)
    IN  { leaf,
          Num("5"),
          List(<<Str("hello"), leaf, Bool("true")>>),
          Map(<<Pair("a", leaf), Pair("n", Num("5")), Pair("z", None),
                Pair("inner", List(<<leaf, Map(<<Pair("b", leaf), Pair("c", Str("hello"))>>)>>))>>) }

NoCall == [op |-> "none", data |-> None, json_path |-> <<>>, tool_input |-> None, result |-> None]

\* The turn handler at rest, and the arguments of one call of the resolver
InitResolver ==
    /\ turn = [t \in Slots |-> IdleTurn]
    /\ event_queue = [t \in Slots |-> <<>>]
    /\ calls = [t \in Slots |-> <<>>]
    /\ agent_trace = NoTrace
    /\ chat_session = [k \in Contexts \X Users |-> NoRow]
    /\ task_store = {}
    /\ hist = [c \in Contexts |-> NoHist]
    /\ turns = 0
    /\ \E data \in DataValues, json_path \in Paths :
          resolver = [NoCall EXCEPT !.data = data, !.json_path = json_path]
    /\ workflow_service = NoService
    /\ workflow_run = NoRun
    /\ postgress = NoQuery

\* Utilities.extract_json_path_value(data, json_path) is called
extract ==
    /\ resolver.op = "none"
    /\ resolver' = [resolver EXCEPT
          !.op = "extract",
          !.result = extract_json_path_value(resolver.data, resolver.json_path)]
    /\ UNCHANGED <<turn, event_queue, calls, agent_trace, chat_session, task_store, hist, turns,
                   workflow_service, workflow_run, postgress>>

\* Utilities.resolve_jsonpath_in_params(tool_input, workflow_data) is called
resolve ==
    /\ resolver.op = "none"
    /\ \E tool_input \in Templates(resolver.json_path) :
          resolver' = [resolver EXCEPT
             !.op = "resolve",
             !.tool_input = tool_input,
             !.result = resolve_jsonpath_in_params(tool_input, resolver.data)]
    /\ UNCHANGED <<turn, event_queue, calls, agent_trace, chat_session, task_store, hist, turns,
                   workflow_service, workflow_run, postgress>>

\* Utilities._resolve_recursive_reference(data, reference_path) is called, as
\* _handle_complex_filter calls it for the reference of a filter expression
resolve_reference ==
    /\ resolver.op = "none"
    /\ filter_pattern(resolver.json_path).ok
    /\ resolver' = [resolver EXCEPT
          !.op = "reference",
          !.result = _resolve_recursive_reference(resolver.data,
                        filter_pattern(resolver.json_path).reference_path).value]
    /\ UNCHANGED <<turn, event_queue, calls, agent_trace, chat_session, task_store, hist, turns,
                   workflow_service, workflow_run, postgress>>

NextResolver == extract \/ resolve \/ resolve_reference

SpecResolver == InitResolver /\ [][NextResolver]_vars

-----------------------------------------------------------------------------
(* The workflow catalog: WorkflowRepository.get_all_workflows_for_role,      *)
(* WorkflowService.get_all_workflows and its lru_cache                       *)

\* The position of a workflow's name among the names (ORDER BY w.name)
NameOf(w) == CASE w = "w1" -> 2 [] w = "w2" -> 1 [] w = "w3" -> 3

RECURSIVE OrderByName(_)
OrderByName(set) ==
    IF set = {} THEN <<>>
    ELSE LET w == CHOOSE x \in set : \A y \in set : NameOf(x) <= NameOf(y)
         IN  <<w>> \o OrderByName(set \ {w})

\* get_all_workflows_for_role, lines 99-134: the rows of the workflows whose
\* access roles hold the role, by name (a row: workflow id and access roles)
get_all_workflows_for_role(access, user_role) ==
    LET ids == OrderByName({ w \in Workflows : user_role \in access[w] })
    IN  [i \in DOMAIN ids |-> [workflow_id |-> ids[i], access_roles |-> access[ids[i]]]]

\* The rows of a role's result that are not yet seen, lines 151-186
RECURSIVE new_rows(_, _)
new_rows(rows, seen_workflow_ids) ==
    IF rows = <<>> THEN <<>>
    ELSE IF Head(rows).workflow_id \in seen_workflow_ids
    THEN new_rows(Tail(rows), seen_workflow_ids)
    ELSE <<Head(rows)>> \o new_rows(Tail(rows), seen_workflow_ids \cup {Head(rows).workflow_id})

\* A variant of the loop of get_all_workflows that does not skip the workflows
\* already seen
RECURSIVE get_all_workflows_loop_all(_, _, _, _)
get_all_workflows_loop_all(access, user_roles, failing, workflows) ==
    IF user_roles = <<>> THEN workflows
    ELSE LET user_role == Head(user_roles)
             result == get_all_workflows_for_role(access, user_role)
         IN  IF user_role \in failing
             THEN get_all_workflows_loop_all(access, Tail(user_roles), failing, workflows)
             ELSE get_all_workflows_loop_all(access, Tail(user_roles), failing, workflows \o result)

\* The loop of get_all_workflows, lines 142-191: role by role, the rows not
\* seen before are appended; a role whose query raises is passed over
RECURSIVE get_all_workflows_loop(_, _, _, _)
get_all_workflows_loop(access, user_roles, failing, workflows) ==
    IF user_roles = <<>> THEN workflows
    ELSE LET user_role == Head(user_roles)
             result == get_all_workflows_for_role(access, user_role)
             seen_workflow_ids == { workflows[i].workflow_id : i \in DOMAIN workflows }
         IN  IF user_role \in failing
             THEN get_all_workflows_loop(access, Tail(user_roles), failing, workflows)
             ELSE get_all_workflows_loop(access, Tail(user_roles), failing,
                                         workflows \o new_rows(result, seen_workflow_ids))

\* get_all_workflows without its cache, lines 135-194: `failing` are the roles
\* whose repository query raises during this call
get_all_workflows(access, user_roles, failing) ==
    IF user_roles = <<>>
    THEN [raised |-> TRUE, workflows |-> <<>>, queried |-> <<>>]
    ELSE [raised |-> FALSE,
          workflows |-> get_all_workflows_loop(access, user_roles, failing, <<>>),
          queried |-> user_roles]

\* functools.lru_cache(maxsize=32), lines 20 and 120: the entries are kept
\* from the least to the most recently used
maxsize == 32

\* The key lru_cache makes of the call's arguments: the instance and the roles
CacheKey(self, user_roles) == [self |-> self, user_roles |-> user_roles]

\* The cached call: a hit returns the entry's value and queries nothing; a
\* miss runs the function and stores what it returned (nothing when it
\* raised), dropping the least recently used entry of a full cache
cached_get_all_workflows(service, self, user_roles, failing) ==
    LET key == CacheKey(self, user_roles)
        cache == service.cache
        found == { i \in DOMAIN cache : cache[i].key = key }
        at == CHOOSE i \in found : TRUE
        others(i) == SelectSeq([j \in DOMAIN cache |-> IF j = i THEN [key |-> key, value |-> <<"dropped">>] ELSE cache[j]],
                               LAMBDA e : e.value # <<"dropped">>)
        call == get_all_workflows(service.access, user_roles, failing)
        room == IF Len(cache) >= maxsize THEN Tail(cache) ELSE cache
    IN  IF found # {}
        THEN [service EXCEPT !.cache = Append(others(at), cache[at]),
                             !.op = "get_all_workflows", !.user_roles = user_roles,
                             !.failed = {}, !.queried = <<>>, !.raised = FALSE,
                             !.hit = TRUE, !.result = cache[at].value]
        ELSE [service EXCEPT !.cache = IF call.raised THEN cache
                                       ELSE Append(room, [key |-> key, value |-> call.workflows]),
                             !.op = "get_all_workflows", !.user_roles = user_roles,
                             !.failed = failing \cap { user_roles[i] : i \in DOMAIN user_roles },
                             !.queried = call.queried, !.raised = call.raised,
                             !.hit = FALSE, !.result = call.workflows]

\* The roles tuples of a call and the roles whose query may fail during it
RoleTuples == SeqsUpTo(Roles, 2)
Failing == { {} } \cup { {r} : r \in Roles }

\* _classify_skill, lines 245-246: a new WorkflowService is created and its
\* get_all_workflows is called with the roles tuple
classify_get_all_workflows ==
    /\ workflow_service.instances < MaxCalls
    /\ \E user_roles \in RoleTuples, failing \in Failing :
          workflow_service' =
              [cached_get_all_workflows(workflow_service, workflow_service.instances + 1,
                                        user_roles, failing)
                  EXCEPT !.instances = workflow_service.instances + 1]
    /\ UNCHANGED <<turn, event_queue, calls, agent_trace, chat_session, task_store, hist, turns,
                   resolver, workflow_run, postgress>>

\* The workflows table at the start: the access roles of each workflow
InitCatalog ==
    /\ turn = [t \in Slots |-> IdleTurn]
    /\ event_queue = [t \in Slots |-> <<>>]
    /\ calls = [t \in Slots |-> <<>>]
    /\ agent_trace = NoTrace
    /\ chat_session = [k \in Contexts \X Users |-> NoRow]
    /\ task_store = {}
    /\ hist = [c \in Contexts |-> NoHist]
    /\ turns = 0
    /\ resolver = NoCall
    /\ workflow_run = NoRun
    /\ postgress = NoQuery
    /\ \E access \in [Workflows -> SUBSET Roles] :
          workflow_service = [NoService EXCEPT !.access = access]

NextCatalog == classify_get_all_workflows

SpecCatalog == InitCatalog /\ [][NextCatalog]_vars

-----------------------------------------------------------------------------
(* The steps of a workflow: WorkflowRepository.get_workflow_with_steps and   *)
(* WorkflowService.get_steps_by_workflow_id                                  *)

USER_INPUT == "USER_INPUT"
FINAL_RESPONSE == "FINAL_RESPONSE"
SYSTEM_ACTION == "SYSTEM_ACTION"
StepTypes == {USER_INPUT, FINAL_RESPONSE, SYSTEM_ACTION}

\* A step of the steps table with what the tables step_user_interaction and
\* step_system_action hold for it: user_message and name are NoneId when the
\* table has no row for the step or the column is NULL
StepRows ==
    [type : StepTypes, user_message : {NoneId, "Enter the VIN"}, name : {NoneId, "lookup"}]

\* get_workflow_with_steps, lines 29-83: None (<<>>) when the workflow does not
\* exist or the role has no access; one row without a step for a workflow
\* that has no steps; else one row per step in step order, with the user
\* interaction joined for the types USER_INPUT and FINAL_RESPONSE only and the
\* system action for the type SYSTEM_ACTION only (lines 62-63).  Only the
\* workflow "w1" has steps.
get_workflow_with_steps(service, workflow_id, user_role) ==
    LET steps == IF workflow_id = "w1" THEN service.steps ELSE <<>>
        head == [workflow_id |-> workflow_id, access_roles |-> service.access[workflow_id],
                 workflow_exit_keywords |-> service.exit_keywords]
        row(i) == [w |-> head, step_id |-> i, type |-> steps[i].type,
                   user_message |-> IF steps[i].type \in {USER_INPUT, FINAL_RESPONSE}
                                    THEN steps[i].user_message ELSE NoneId,
                   name |-> IF steps[i].type = SYSTEM_ACTION THEN steps[i].name ELSE NoneId]
    IN  IF workflow_id \notin Workflows \/ user_role \notin service.access[workflow_id] THEN <<>>
        ELSE IF steps = <<>>
        THEN <<[w |-> head, step_id |-> 0, type |-> NoneId, user_message |-> NoneId, name |-> NoneId]>>
        ELSE [i \in DOMAIN steps |-> row(i)]

\* A variant of step_of_row that attaches the payload of the step's type also
\* when the row holds none
step_of_row_by_type(row) ==
    [step_id |-> row.step_id, type |-> row.type,
     keys |-> (IF row.type \in {USER_INPUT, FINAL_RESPONSE} THEN {"user_interaction"} ELSE {})
              \cup (IF row.type = SYSTEM_ACTION THEN {"system_action_details"} ELSE {}),
     user_message |-> row.user_message, name |-> row.name]

\* The step dict built of a row, lines 83-113: keys holds which of
\* "user_interaction" and "system_action_details" the dict has
step_of_row(row) ==
    [step_id |-> row.step_id, type |-> row.type,
     keys |-> (IF row.type \in {USER_INPUT, FINAL_RESPONSE} /\ row.user_message # NoneId
               THEN {"user_interaction"} ELSE {})
              \cup (IF row.type = SYSTEM_ACTION /\ row.name # NoneId
                    THEN {"system_action_details"} ELSE {}),
     user_message |-> row.user_message, name |-> row.name]

\* get_steps_by_workflow_id, lines 36-118 (the lru_cache around it returns
\* what this returned): raises on an empty workflow id or role, returns None
\* when the repository has no row, else the workflow with a step per row that
\* has a step
get_steps_by_workflow_id(service, workflow_id, user_role) ==
    LET result == get_workflow_with_steps(service, workflow_id, user_role)
        rows == SelectSeq(result, LAMBDA row : row.step_id # 0)
    IN  IF workflow_id = "" \/ user_role = "" THEN [raised |-> TRUE, workflow |-> NoWorkflow]
        ELSE IF result = <<>> THEN [raised |-> FALSE, workflow |-> NoWorkflow]
        ELSE [raised |-> FALSE,
              workflow |-> [workflow_id |-> result[1].w.workflow_id,
                            access_roles |-> result[1].w.access_roles,
                            workflow_exit_keywords |-> result[1].w.workflow_exit_keywords,
                            steps |-> [i \in DOMAIN rows |-> step_of_row(rows[i])]]]

\* get_steps_by_workflow_id is called
get_steps ==
    /\ workflow_service.op = "none"
    /\ \E workflow_id \in {"w1", "w2", ""}, user_role \in Roles \cup {""} :
          LET call == get_steps_by_workflow_id(workflow_service, workflow_id, user_role)
          IN  workflow_service' =
                  [workflow_service EXCEPT !.op = "get_steps_by_workflow_id",
                                           !.user_roles = <<user_role>>,
                                           !.raised = call.raised,
                                           !.result = call.workflow]
    /\ UNCHANGED <<turn, event_queue, calls, agent_trace, chat_session, task_store, hist, turns,
                   resolver, workflow_run, postgress>>

\* The tables at the start: the steps of workflow "w1" and the roles that
\* have access to it
InitSteps ==
    /\ turn = [t \in Slots |-> IdleTurn]
    /\ event_queue = [t \in Slots |-> <<>>]
    /\ calls = [t \in Slots |-> <<>>]
    /\ agent_trace = NoTrace
    /\ chat_session = [k \in Contexts \X Users |-> NoRow]
    /\ task_store = {}
    /\ hist = [c \in Contexts |-> NoHist]
    /\ turns = 0
    /\ resolver = NoCall
    /\ workflow_run = NoRun
    /\ postgress = NoQuery
    /\ \E steps \in SeqsUpTo(StepRows, MaxWorkflowSteps), roles \in SUBSET Roles :
          workflow_service = [NoService EXCEPT !.steps = steps, !.access["w1"] = roles]

NextSteps == get_steps

SpecSteps == InitSteps /\ [][NextSteps]_vars

-----------------------------------------------------------------------------
(* The workflow step walker.  Its code (app/agent) is not among the sources; *)
(* it is written here after section 4.3 of the specification, over the       *)
(* workflow that get_steps_by_workflow_id returns.  Inputs and keywords are  *)
(* sequences of characters.                                                  *)

AWAITING_ROUTE == "AWAITING_ROUTE"
RUNNING == "RUNNING"
AWAITING_USER_INPUT == "AWAITING_USER_INPUT"
COMPLETED == "COMPLETED"
FAILED == "FAILED"

\* str.lower() on the characters the model uses
LowerChar(c) ==
    CASE c = "E" -> "e" [] c = "N" -> "n" [] c = "D" -> "d" [] c = "X" -> "x" [] c = "V" -> "v"
      [] OTHER -> c
lower(s) == [i \in DOMAIN s |-> LowerChar(s[i])]

\* A variant of the exit-keyword check that compares the case as well
exit_keyword_match_case(input, keywords) ==
    \E i \in DOMAIN keywords : keywords[i] = input

\* The exit-keyword check: the input equals one of the workflow's exit
\* keywords, ignoring case
exit_keyword_match(input, keywords) ==
    \E i \in DOMAIN keywords : lower(keywords[i]) = lower(input)

\* The validation of a user value against the step's regex and rules
valid_input(input) == input # <<"?">>

\* The exit keywords of workflow "w1": none, "end", or "End" and "x"
ExitKeywordLists ==
    { <<>>, << <<"e", "n", "d">> >>, << <<"E", "n", "d">>, <<"x">> >> }

\* What the user may type: "end", "END", "end ", "en", "X", "V1" and "?"
UserInputs ==
    { <<"e", "n", "d">>, <<"E", "N", "D">>, <<"e", "n", "d", " ">>, <<"e", "n">>,
      <<"X">>, <<"V", "1">>, <<"?">> }

\* The steps whose payload is stored
StoredStepRows ==
    { r \in StepRows : IF r.type = SYSTEM_ACTION
                         THEN r.name # NoneId /\ r.user_message = NoneId
                         ELSE r.user_message # NoneId /\ r.name = NoneId }

\* Moving to next_step_id after the current step completed; the last step
\* has none and ends the run
advance(run) ==
    IF run.step >= Len(run.workflow.steps)
    THEN [run EXCEPT !.status = COMPLETED]
    ELSE [run EXCEPT !.status = RUNNING, !.step = run.step + 1]

\* A route to workflow "w1" was selected: the run starts at its first step
start_run ==
    /\ workflow_run.status = AWAITING_ROUTE
    /\ LET call == get_steps_by_workflow_id(workflow_service, "w1", "admin")
       IN  /\ ~call.raised /\ call.workflow # NoWorkflow
           /\ workflow_run' = advance([workflow_run EXCEPT !.workflow = call.workflow])
    /\ UNCHANGED <<turn, event_queue, calls, agent_trace, chat_session, task_store, hist, turns,
                   resolver, workflow_service, postgress>>

\* The run enters its current step: a USER_INPUT or FINAL_RESPONSE step waits
\* for the user's value; a SYSTEM_ACTION step invokes the action, which
\* succeeds or reports a failure
enter_step ==
    /\ workflow_run.status = RUNNING
    /\ LET step == workflow_run.workflow.steps[workflow_run.step]
           ran == [workflow_run EXCEPT !.executed = Append(@, workflow_run.step)]
       IN  IF step.type \in {USER_INPUT, FINAL_RESPONSE}
           THEN workflow_run' = [workflow_run EXCEPT !.status = AWAITING_USER_INPUT]
           ELSE \E success \in BOOLEAN :
                   workflow_run' = IF success THEN advance(ran) ELSE [ran EXCEPT !.status = FAILED]
    /\ UNCHANGED <<turn, event_queue, calls, agent_trace, chat_session, task_store, hist, turns,
                   resolver, workflow_service, postgress>>

\* The run waiting for a user value receives one: the exit-keyword check comes
\* first and ends the run; an invalid value prompts again on the same step; a
\* valid one completes the step, and a FINAL_RESPONSE completes the run
on_user_input(run, input) ==
    LET got == [run EXCEPT !.inputs = @ + 1, !.last_input = input]
        step == run.workflow.steps[run.step]
        done == [got EXCEPT !.executed = Append(@, run.step)]
    IN  IF exit_keyword_match(input, run.workflow.workflow_exit_keywords)
        THEN [got EXCEPT !.status = COMPLETED, !.exited = TRUE]
        ELSE IF ~valid_input(input) THEN got
        ELSE IF step.type = FINAL_RESPONSE THEN [done EXCEPT !.status = COMPLETED]
        ELSE advance(done)

receive_input ==
    /\ workflow_run.status = AWAITING_USER_INPUT
    /\ workflow_run.inputs < MaxInputs
    /\ \E input \in UserInputs : workflow_run' = on_user_input(workflow_run, input)
    /\ UNCHANGED <<turn, event_queue, calls, agent_trace, chat_session, task_store, hist, turns,
                   resolver, workflow_service, postgress>>

\* The tables at the start: workflow "w1", open to the role admin, with its
\* steps and exit keywords
InitWalker ==
    /\ turn = [t \in Slots |-> IdleTurn]
    /\ event_queue = [t \in Slots |-> <<>>]
    /\ calls = [t \in Slots |-> <<>>]
    /\ agent_trace = NoTrace
    /\ chat_session = [k \in Contexts \X Users |-> NoRow]
    /\ task_store = {}
    /\ hist = [c \in Contexts |-> NoHist]
    /\ turns = 0
    /\ resolver = NoCall
    /\ postgress = NoQuery
    /\ workflow_run = NoRun
    /\ \E steps \in SeqsUpTo(StoredStepRows, MaxWorkflowSteps), keywords \in ExitKeywordLists :
          workflow_service = [NoService EXCEPT !.steps = steps, !.access["w1"] = {"admin"},
                                               !.exit_keywords = keywords]

NextWalker == start_run \/ enter_step \/ receive_input

SpecWalker == InitWalker /\ [][NextWalker]_vars

-----------------------------------------------------------------------------
(* Postgress.get_connection and Postgress.execute_query                      *)

\* The default of get_connection's parameter retries, line 10
retries == 3

\* What one psycopg2.connect (with the statements of lines 21-26) does: it
\* gives a connection, fails with 'password authentication failed', or fails
\* with another error
ConnectOutcomes == {"connected", "password authentication failed", "other error"}

\* execute_query (with the default retries) or get_connection (with retries
\* given by the caller) is called: conn = None (line 40), attempt = 0 (line 11)
postgress_called ==
    /\ postgress.pc \in {"idle", "returned", "raised"}
    /\ postgress.queries < MaxQueries
    /\ \E op \in {"execute_query", "get_connection"}, n \in 1..retries, fetch \in BOOLEAN :
          /\ op = "execute_query" => n = retries
          /\ op = "get_connection" => ~fetch
          /\ postgress' = [NoQuery EXCEPT !.pc = "get_connection", !.op = op, !.retries = n,
                                           !.fetch = fetch, !.conn = "None",
                                           !.queries = postgress.queries + 1]
    /\ UNCHANGED <<turn, event_queue, calls, agent_trace, chat_session, task_store, hist, turns,
                   resolver, workflow_service, workflow_run>>

\* The end of get_connection when the loop condition attempt < retries fails,
\* lines 12 and 37: the function falls off its end and returns None; under
\* execute_query the query comes next
get_connection_end(p) ==
    [p EXCEPT !.pc = IF p.op = "execute_query" THEN "query" ELSE "returned"]

\* One pass of the loop of get_connection, lines 12-37
connect ==
    /\ postgress.pc = "get_connection"
    /\ IF postgress.attempt < postgress.retries
       THEN \E outcome \in ConnectOutcomes :
              LET p == [postgress EXCEPT !.outcomes = Append(@, outcome)]
              IN  postgress' =
                    CASE outcome = "connected" ->
                           [p EXCEPT !.conn = "open",
                                     !.pc = IF p.op = "execute_query" THEN "query" ELSE "returned"]
                      [] outcome = "password authentication failed" ->
                           [p EXCEPT !.attempt = @ + 1]
                      [] outcome = "other error" ->
                           [p EXCEPT !.pc = "raised", !.error = outcome]
       ELSE postgress' = get_connection_end(postgress)
    /\ UNCHANGED <<turn, event_queue, calls, agent_trace, chat_session, task_store, hist, turns,
                   resolver, workflow_service, workflow_run>>

\* execute_query after get_connection returned, lines 43-53: conn.cursor() on
\* None raises; else the query runs (or fails) and the connection is closed
query ==
    /\ postgress.pc = "query"
    /\ IF postgress.conn = "None"
       THEN postgress' = [postgress EXCEPT !.pc = "raised",
                             !.error = "'NoneType' object has no attribute 'cursor'"]
       ELSE \E ok \in BOOLEAN :
              postgress' = [postgress EXCEPT
                  !.pc = IF ok THEN "returned" ELSE "raised",
                  !.error = IF ok THEN "" ELSE "query failed",
                  !.rows = IF ok /\ postgress.fetch THEN "rows" ELSE IF ok THEN "None" ELSE @,
                  !.conn = "closed"]
    /\ UNCHANGED <<turn, event_queue, calls, agent_trace, chat_session, task_store, hist, turns,
                   resolver, workflow_service, workflow_run>>

NextPostgress == postgress_called \/ connect \/ query

SpecPostgress == Init /\ [][NextPostgress]_vars

-----------------------------------------------------------------------------
(* Properties *)

\* The status updates a turn has put on its event queue, in order
StatusUpdates(t) == SelectSeq(event_queue[t], LAMBDA e : e.kind = "status")

\* The set of collaborators a turn has invoked
Called(t) == { calls[t][i] : i \in DOMAIN calls[t] }

\* C1: a turn whose authorization token is empty (after 'Bearer ' is removed
\* and the rest stripped) has invoked no collaborator: not the identity
\* resolver, not the session store, not the classifier, not the event queue.
C1_EmptyTokenInvokesNothing ==
    \A t \in Slots :
        (turn[t].pc # "idle" /\ turn[t].state.token = EmptyStr)
            => (calls[t] = <<>> /\ event_queue[t] = <<>>)

\* C2: a turn whose resolved set of user roles is empty has not loaded the
\* session, has not called _classify_skill and has not started the run.
C2_EmptyRolesRejectedBeforeRouting ==
    \A t \in Slots :
        (turn[t].state.user_id # NoneId /\ turn[t].state.user_roles = <<>>)
            => Called(t) \cap {"load_agent_session", "get_all_workflows", "client.chat", "main"} = {}

\* C3: get_user_info never hands the turn a (user_id, roles) pair whose user id
\* is empty or whose roles list is empty: for such a response it raises.
C3_IdentityFailsClosed ==
    \A t \in Slots :
        turn[t].state.user_id # NoneId
            => (~NotId(turn[t].state.user_id) /\ turn[t].state.user_roles # <<>>)

\* C4 as stated: whenever the completion service answered with a skill field
\* outside {capability, workflow, other} (or with none), _classify_skill
\* raised: the turn failed, holds no route and did not start the run.
C4_SkillOutsideRoutesFails ==
    \A t \in Slots :
        (turn[t].asked /\ ~turn[t].response.raises
           /\ (~turn[t].response.has_skill \/ turn[t].response.skill_null
                 \/ turn[t].response.skill \notin Routes))
            => (turn[t].pc = "failed" /\ turn[t].state.selected_skill \notin Routes
                  /\ "main" \notin Called(t))

\* C4 amended: the same for every answer whose skill field, once its
\* surrounding whitespace is stripped, is outside {capability, workflow,
\* other} (or is missing or null); no default route is substituted.
C4_StrippedSkillOutsideRoutesFails ==
    \A t \in Slots :
        (turn[t].asked /\ ~turn[t].response.raises
           /\ (~turn[t].response.has_skill \/ turn[t].response.skill_null
                 \/ strip(turn[t].response.skill) \notin Routes))
            => (turn[t].pc = "failed" /\ turn[t].state.selected_skill \notin Routes
                  /\ "main" \notin Called(t))

\* C4 witness: a turn that failed on the answer "Workflow" (wrong case)
C4_Witness ==
    \E t \in Slots :
        /\ turn[t].asked /\ turn[t].response.has_skill /\ ~turn[t].response.skill_null
        /\ turn[t].response.skill = <<"Workflow">>
        /\ turn[t].pc = "failed" /\ turn[t].error = "Unrecognized skill"

\* C5: classification happens once per session.  Whenever a run starts on a
\* context id that has been classified, that classification is the only one
\* made for the context id, and the run starts with the selected skill it
\* produced.
C5_ClassifiedOncePerSession ==
    \A t \in Slots :
        (turn[t].pc = "main" /\ hist[turn[t].context_id].first_skill # NoneStr)
            => /\ hist[turn[t].context_id].classifications = 1
               /\ turn[t].state.selected_skill = hist[turn[t].context_id].first_skill

Reported(result) == IF "task_state" \in result.keys THEN result.task_state ELSE completed

\* C7: a non-streaming turn whose run returned has put exactly one status
\* update on the event queue.
C7_OneUpdateWithoutStreaming ==
    \A t \in Slots :
        (turn[t].pc = "done" /\ turn[t].method = "message/send")
            => Len(StatusUpdates(t)) = 1

\* C8: every status update of a finished non-streaming turn reports the task
\* state the run produced (completed when it set none) and is final exactly
\* when that state is not input_required.
C8_FinalUnlessInputRequired ==
    \A t \in Slots :
        (turn[t].pc = "done" /\ turn[t].method = "message/send")
            => /\ StatusUpdates(t) # <<>>
               /\ \A i \in DOMAIN StatusUpdates(t) :
                     /\ StatusUpdates(t)[i].state = Reported(turn[t].result)
                     /\ StatusUpdates(t)[i].final <=> (Reported(turn[t].result) # input_required)

\* C8 witness: a finished non-streaming turn whose run paused for input and
\* whose update is input_required and not final
C8_Witness ==
    \E t \in Slots :
        /\ turn[t].pc = "done" /\ turn[t].method = "message/send"
        /\ Reported(turn[t].result) = input_required
        /\ StatusUpdates(t)[1].state = input_required /\ ~StatusUpdates(t)[1].final

\* C9: the last update of a finished streaming turn carries the task state and
\* the final flag the non-streaming path emits for the same run result.
C9_StreamingFinalAsWithoutStreaming ==
    \A t \in Slots :
        (turn[t].pc = "done" /\ turn[t].method = "message/stream")
            => LET q == StatusUpdates(t)
                   sync == _run_workflow_without_streaming(turn[t].state, turn[t].result).events[1]
               IN  /\ q # <<>>
                   /\ q[Len(q)].state = sync.state
                   /\ q[Len(q)].final = sync.final

\* C10: a finished streaming turn whose callback was invoked N times has put
\* exactly N non-final working updates on the event queue, followed by exactly
\* one final update.
C10_WorkingUpdatePerStep ==
    \A t \in Slots :
        (turn[t].pc = "done" /\ turn[t].method = "message/stream")
            => LET q == StatusUpdates(t)
                   n == turn[t].steps
               IN  /\ Len(q) = n + 1
                   /\ \A i \in 1..n : q[i].state = working /\ ~q[i].final
                   /\ q[n + 1].final

C12_SavedUnderOwnSession ==
    [][\A c \in Contexts, u \in Users :
          chat_session'[c, u] # chat_session[c, u]
             => \E t \in Slots : /\ turn'[t] # turn[t]
                                 /\ turn[t].context_id = c
                                 /\ turn'[t].state.user_id = u]_vars

\* s is an initial part of q
IsPrefix(s, q) == Len(s) <= Len(q) /\ SubSeq(q, 1, Len(s)) = s

ValidationErrors ==
    {"Input payload is missing or empty.", "Authorization token is missing or empty."}
ClassificationErrors ==
    {"Unrecognized skill", "client.chat raised", "'NoneType' object has no attribute 'strip'",
     "user_roles must be a non-empty tuple"}

\* C14 as stated: a turn aborted by a validation failure or by a
\* classification failure has put nothing on its event queue, neither a status
\* update nor any other event.
C14_NothingEnqueuedBeforeAbort ==
    \A t \in Slots :
        (turn[t].pc = "failed" /\ turn[t].error \in ValidationErrors \cup ClassificationErrors)
            => event_queue[t] = <<>>

\* C14 amended: such a turn has put no status update on its event queue.  After
\* a validation failure the queue is empty; after a classification failure it
\* holds the Task event of the task made for the new conversation and nothing
\* else.
C14_NoStatusUpdateBeforeAbort ==
    \A t \in Slots :
        /\ (turn[t].pc = "failed" /\ turn[t].error \in ValidationErrors)
              => event_queue[t] = <<>>
        /\ (turn[t].pc = "failed" /\ turn[t].error \in ClassificationErrors)
              => /\ StatusUpdates(t) = <<>>
                 /\ event_queue[t] = <<TaskEvent(turn[t].task_id, turn[t].context_id)>>

\* C14 witness: a turn aborted by the classifier with the Task event as the
\* only event on its queue
C14_Witness ==
    \E t \in Slots :
        /\ turn[t].pc = "failed" /\ turn[t].error = "Unrecognized skill"
        /\ Len(event_queue[t]) = 1 /\ event_queue[t][1].kind = "task"

\* C15: the state needed to resume a paused run survives the round trip
\* through the session store.  A run that starts on the task of a context id
\* whose last run paused for user input starts with the workflow id the paused
\* turn ended with.
C15_ResumesWithSameWorkflow ==
    \A t \in Slots :
        (turn[t].pc = "main" /\ turn[t].current_task # 0 /\ hist[turn[t].context_id].paused)
            => turn[t].state.workflow_id = hist[turn[t].context_id].paused_workflow_id

\* C16: the cardinality rule of extract_json_path_value.  For every expression
\* and every data value the result is None when there is no match, the value
\* of the match when there is one, and the list of the matched values in match
\* order when there are more.
C16_CardinalityRule ==
    resolver.op = "extract"
        => LET matches == json_path_matches(resolver.data, resolver.json_path).results
           IN  /\ matches = <<>> => resolver.result = None
               /\ Len(matches) = 1 => resolver.result = matches[1]
               /\ Len(matches) > 1 => /\ resolver.result.t = "list"
                                      /\ Values(resolver.result) = matches

\* C16 witness: a recursive descent with two matches resolved to their list
C16_Witness ==
    /\ resolver.op = "extract"
    /\ resolver.json_path = <<"$", "..", "vin">>
    /\ resolver.result = List(<<Str("V1"), Str("V2")>>)

\* The claim's example data, and the targets of the vehicles whose
\* soldOrderNumber equals ref: of every such item, and of those that hold a
\* vin that is not null
ExampleData == WorkflowData(<<Vehicle("X", Str("V1")), Vehicle("Y", Str("V2"))>>, "top")
IsList(x, field) == x.t = "map" /\ Has(x, field) /\ Get(x, field).t = "list"
Sold(item, ref) == item.t = "map" /\ Has(item, "soldOrderNumber") /\ Get(item, "soldOrderNumber") = ref
Vin(item) == IF Has(item, "vin") THEN Get(item, "vin") ELSE None
RECURSIVE TargetsOf(_, _, _)
TargetsOf(items, ref, with_null) ==
    IF items = <<>> THEN <<>>
    ELSE (IF Sold(Head(items), ref) /\ (with_null \/ Vin(Head(items)) # None)
          THEN <<Vin(Head(items))>> ELSE <<>>) \o TargetsOf(Tail(items), ref, with_null)

\* C17 as stated: vehicles[?(@.soldOrderNumber==$..selected_order)].vin on the
\* example data resolves to "V1", and on any data whose vehicles field is a
\* list to the targets of all items whose soldOrderNumber equals the resolved
\* reference: None for none, the value for one, the list for more.
C17_FilterAndProject ==
    (resolver.op = "extract"
       /\ resolver.json_path \in { Filter(<<>>, <<"$", "..", "selected_order">>),
                                   Filter(<<"$", ".">>, <<"$", "..", "selected_order">>) })
        => LET ref == _resolve_recursive_reference(resolver.data, <<"$", "..", "selected_order">>).value
           IN  /\ resolver.data = ExampleData => resolver.result = Str("V1")
               /\ (IsList(resolver.data, "vehicles") /\ ref # None)
                     => resolver.result =
                           single_or_list(TargetsOf(Values(Get(resolver.data, "vehicles")), ref, TRUE))

\* C17 amended: the expression written from the root,
\* $.vehicles[?(@.soldOrderNumber==$..selected_order)].vin, resolves to "V1" on
\* the example data, and on any data whose vehicles field is a list to the
\* targets that are not null of the items that are maps and whose
\* soldOrderNumber equals the resolved reference; the expression written
\* without "$." resolves to None.
C17_RootedFilterAndProject ==
    /\ (resolver.op = "extract"
          /\ resolver.json_path = Filter(<<"$", ".">>, <<"$", "..", "selected_order">>))
          => LET ref == _resolve_recursive_reference(resolver.data, <<"$", "..", "selected_order">>).value
             IN  /\ resolver.data = ExampleData => resolver.result = Str("V1")
                 /\ (IsList(resolver.data, "vehicles") /\ ref # None)
                       => resolver.result =
                             single_or_list(TargetsOf(Values(Get(resolver.data, "vehicles")), ref, FALSE))
    /\ (resolver.op = "extract"
          /\ resolver.json_path = Filter(<<>>, <<"$", "..", "selected_order">>))
          => resolver.result = None

\* C17 witness: two vehicles of the selected order, resolved to the list of
\* their vins in array order
C17_Witness ==
    /\ resolver.op = "extract"
    /\ resolver.json_path = Filter(<<"$", ".">>, <<"$", "..", "selected_order">>)
    /\ resolver.data = WorkflowData(<<Vehicle("X", Str("V3")), Vehicle("X", Str("V1"))>>, "top")
    /\ resolver.result = List(<<Str("V3"), Str("V1")>>)

\* The first occurrence of a field in a depth-first traversal of a value: a
\* map is met before what its values hold, its values are gone through in key
\* order and the items of a list in index order
RECURSIVE FirstOccurrence(_, _), FirstOccurrenceIn(_, _)
FirstOccurrence(x, field) ==
    IF x.t = "map" /\ Has(x, field) THEN [found |-> TRUE, value |-> Get(x, field)]
    ELSE IF x.t \in {"map", "list"} THEN FirstOccurrenceIn(Values(x), field)
    ELSE [found |-> FALSE, value |-> None]
FirstOccurrenceIn(vals, field) ==
    IF vals = <<>> THEN [found |-> FALSE, value |-> None]
    ELSE IF FirstOccurrence(Head(vals), field).found THEN FirstOccurrence(Head(vals), field)
    ELSE FirstOccurrenceIn(Tail(vals), field)

\* The state holds the result of resolving the reference $..field
ResolvedRecursive(field) ==
    /\ resolver.op = "reference"
    /\ filter_pattern(resolver.json_path).reference_path = <<"$", "..", field>>

\* C18 as stated: a reference $..field in a filter resolves to the first
\* occurrence of the field in a depth-first traversal of the data; it is
\* absent, and the filter with it, exactly when the field occurs nowhere, and
\* a reference that occurs is used for the comparison.
C18_FirstOccurrenceOrAbsent ==
    \A field \in {"selected_order", "nope"} :
        LET first == FirstOccurrence(resolver.data, field)
        IN  /\ ResolvedRecursive(field)
                => resolver.result = IF first.found THEN first.value ELSE None
            /\ (resolver.op = "extract"
                  /\ resolver.json_path = Filter(<<"$", ".">>, <<"$", "..", field>>)
                  /\ IsList(resolver.data, "vehicles"))
                => resolver.result =
                      IF first.found
                      THEN single_or_list(TargetsOf(Values(Get(resolver.data, "vehicles")), first.value, FALSE))
                      ELSE None

\* C18 amended: the reference resolves to that first occurrence; it is absent,
\* and the filter with it, exactly when the field occurs nowhere or its first
\* occurrence is null, and a first occurrence that is not null is used for the
\* comparison.
C18_FirstOccurrenceUnlessNull ==
    \A field \in {"selected_order", "nope"} :
        LET first == FirstOccurrence(resolver.data, field)
        IN  /\ ResolvedRecursive(field)
                => resolver.result = IF first.found THEN first.value ELSE None
            /\ (resolver.op = "extract"
                  /\ resolver.json_path = Filter(<<"$", ".">>, <<"$", "..", field>>)
                  /\ IsList(resolver.data, "vehicles"))
                => resolver.result =
                      IF first.found /\ first.value # None
                      THEN single_or_list(TargetsOf(Values(Get(resolver.data, "vehicles")), first.value, FALSE))
                      ELSE None

\* C18 witness: the field occurs at the root and, with another value, inside a
\* map that comes before it; the reference resolved to the root's
C18_Witness ==
    /\ ResolvedRecursive("selected_order")
    /\ resolver.data = WorkflowData(<<Vehicle("Y", Str("V2"))>>, "nested_first")
    /\ resolver.result = Str("X")

\* Every string leaf of the template whose expression resolves to None (it
\* failed, or nothing matched) is in the result as it was in the template
RECURSIVE UnresolvedKept(_, _, _)
UnresolvedKept(template, result, data) ==
    IF template.t \in {"map", "list"}
    THEN /\ result.t = template.t
         /\ Len(result.items) = Len(template.items)
         /\ \A i \in DOMAIN template.items :
               UnresolvedKept(template.items[i].val, result.items[i].val, data)
    ELSE (template.t = "str" /\ extract_json_path_value(data, template.v) = None)
            => result = template

\* C19: resolution never aborts the caller.  Every call of
\* resolve_jsonpath_in_params returns, whatever the expression (malformed and
\* unsupported ones included) and whatever the data (data that is no map
\* included), and every leaf whose resolution fails or yields None is in the
\* output as it was in the template.
C19_UnresolvedLeafKept ==
    resolver.op = "resolve"
        => UnresolvedKept(resolver.tool_input, resolver.result, resolver.data)

\* C19 witness: a malformed expression in a list, resolved against data that
\* is no map, came back as it was
C19_Witness ==
    /\ resolver.op = "resolve"
    /\ resolver.json_path = <<"$", "[?(@.">>
    /\ resolver.data = Str("X")
    /\ resolver.tool_input.t = "list"
    /\ resolver.result = resolver.tool_input

\* The result has the template's shape: the same keys in the same order in
\* every map, the same length of every list, and every leaf that is no string
\* as it was
RECURSIVE SameShape(_, _)
SameShape(template, result) ==
    IF template.t \in {"map", "list"}
    THEN /\ result.t = template.t
         /\ Len(result.items) = Len(template.items)
         /\ \A i \in DOMAIN template.items :
               /\ result.items[i].k = template.items[i].k
               /\ SameShape(template.items[i].val, result.items[i].val)
    ELSE template.t # "str" => result = template

\* C20: resolve_jsonpath_in_params walks the template structurally.  The
\* output has the template's map keys, list lengths and order at every level;
\* only string leaves are replaced; numbers, booleans and null pass through.
C20_StructuralWalk ==
    resolver.op = "resolve" => SameShape(resolver.tool_input, resolver.result)

\* C20 witness: a nested template whose string leaf "a" was replaced by the
\* value resolved while its number and its null stayed
C20_Witness ==
    /\ resolver.op = "resolve"
    /\ resolver.tool_input.t = "map"
    /\ resolver.json_path = <<"$", ".", "selected_order">>
    /\ resolver.result.items[1].val = Str("X")
    /\ resolver.result.items[2].val = Num("5")
    /\ resolver.result.items[3].val = None
    /\ resolver.result.items[4].val.items[2].val.items[1].val = Str("X")

\* C21: resolving $.a.b returns the value of b whenever b is present in the
\* data, whatever its value, and absent only when b is missing; and the
\* resolved template leaf is then that value, not the expression string.
DescentPath == <<"$", ".", "a", ".", "b">>
HasB(data) == Has(Get(data, "a"), "b")
ValueOfB(data) == Get(Get(data, "a"), "b")
C21_DirectDescentReturnsValue ==
    (resolver.data \in DescentData /\ resolver.json_path = DescentPath) =>
        /\ resolver.op = "extract" =>
              /\ HasB(resolver.data) => resolver.result = ValueOfB(resolver.data)
              /\ resolver.result = None <=> ~HasB(resolver.data)
        /\ (resolver.op = "resolve" /\ resolver.tool_input = Scalar("str", DescentPath)
              /\ HasB(resolver.data)) =>
              resolver.result = ValueOfB(resolver.data)

\* C21 (amended): resolving $.a.b returns the value of b when b is present and
\* absent when b is missing or null; the resolved template leaf is the value of
\* b when b is present and not null (false, 0 and the empty string included)
\* and the expression string otherwise.
C21_DirectDescentUnlessNull ==
    (resolver.data \in DescentData /\ resolver.json_path = DescentPath) =>
        /\ resolver.op = "extract" =>
              /\ HasB(resolver.data) => resolver.result = ValueOfB(resolver.data)
              /\ resolver.result = None <=>
                    (~HasB(resolver.data) \/ ValueOfB(resolver.data) = None)
        /\ (resolver.op = "resolve" /\ resolver.tool_input = Scalar("str", DescentPath)) =>
              resolver.result =
                  IF HasB(resolver.data) /\ ValueOfB(resolver.data) # None
                  THEN ValueOfB(resolver.data)
                  ELSE Scalar("str", DescentPath)

C21_Witness ==
    /\ resolver.op = "resolve"
    /\ resolver.data = Nested(<<Pair("b", Bool("false"))>>)
    /\ resolver.tool_input = Scalar("str", DescentPath)
    /\ resolver.result = Bool("false")

\* C22: the catalog get_all_workflows returns for a tuple of roles is the
\* union of the workflows visible to each role, holds each workflow id at most
\* once, and is ordered by the first role of the tuple that sees the workflow
\* and then by that role's workflow order.
VisibleTo(role) == { w \in Workflows : role \in workflow_service.access[w] }
CatalogIds == [i \in DOMAIN workflow_service.result |-> workflow_service.result[i].workflow_id]
FirstRole(w, positions) ==
    CHOOSE i \in positions :
        /\ w \in VisibleTo(workflow_service.user_roles[i])
        /\ \A j \in positions : w \in VisibleTo(workflow_service.user_roles[j]) => i <= j
CatalogOf(positions) ==
    /\ { CatalogIds[i] : i \in DOMAIN CatalogIds }
          = UNION { VisibleTo(workflow_service.user_roles[i]) : i \in positions }
    /\ \A i, j \in DOMAIN CatalogIds : i < j =>
          /\ CatalogIds[i] # CatalogIds[j]
          /\ \/ FirstRole(CatalogIds[i], positions) < FirstRole(CatalogIds[j], positions)
             \/ /\ FirstRole(CatalogIds[i], positions) = FirstRole(CatalogIds[j], positions)
                /\ NameOf(CatalogIds[i]) < NameOf(CatalogIds[j])
C22_CatalogIsOrderedUnion ==
    (workflow_service.op = "get_all_workflows" /\ ~workflow_service.raised)
        => CatalogOf(DOMAIN workflow_service.user_roles)

\* C22 (amended): the catalog is the union of the workflows visible to each
\* role of the tuple whose repository query did not fail, holds each workflow
\* id at most once, and is ordered by the first such role that sees the
\* workflow and then by that role's workflow order.
C22_CatalogOfAnsweredRoles ==
    (workflow_service.op = "get_all_workflows" /\ ~workflow_service.raised /\ ~workflow_service.hit)
        => CatalogOf({ i \in DOMAIN workflow_service.user_roles :
                          workflow_service.user_roles[i] \notin workflow_service.failed })

C22_Witness ==
    /\ workflow_service.op = "get_all_workflows"
    /\ workflow_service.user_roles = <<"ops", "admin">>
    /\ workflow_service.failed = {}
    /\ workflow_service.access = [w \in Workflows |-> IF w = "w3" THEN {"admin", "ops"} ELSE {"admin"}]
    /\ CatalogIds = <<"w3", "w2", "w1">>

\* C23: two lookups with the same roles tuple query the repository at most
\* once while the entry is still cached, and the cache never holds more than
\* 32 entries.
C23_SameRolesQueriedOnce ==
    /\ [](Len(workflow_service.cache) <= maxsize)
    /\ [][ (/\ workflow_service'.instances # workflow_service.instances
            /\ \E i \in DOMAIN workflow_service.cache :
                  workflow_service.cache[i].key.user_roles = workflow_service'.user_roles)
           => workflow_service'.queried = <<>> ]_vars

\* C24: every step of the workflow get_steps_by_workflow_id returns carries
\* exactly one payload, the one of its type: user_interaction and no
\* system_action_details for USER_INPUT and FINAL_RESPONSE,
\* system_action_details and no user_interaction for SYSTEM_ACTION.
ReturnedSteps ==
    IF workflow_service.op = "get_steps_by_workflow_id" /\ ~workflow_service.raised
    THEN workflow_service.result.steps ELSE <<>>
C24_ExactlyOnePayload ==
    \A i \in DOMAIN ReturnedSteps :
        LET step == ReturnedSteps[i]
        IN  /\ step.type \in {USER_INPUT, FINAL_RESPONSE} => step.keys = {"user_interaction"}
            /\ step.type = SYSTEM_ACTION => step.keys = {"system_action_details"}
            /\ Cardinality(step.keys) = 1

\* C24 (amended): every returned step carries at most one payload, and only
\* the one of its type; it carries that payload exactly when the tables hold
\* it for the step (a user message for USER_INPUT and FINAL_RESPONSE, an action
\* name for SYSTEM_ACTION), and has neither otherwise.
C24_AtMostOnePayloadOfItsType ==
    \A i \in DOMAIN ReturnedSteps :
        LET step == ReturnedSteps[i]
            stored == workflow_service.steps[i]
        IN  /\ step.type = stored.type
            /\ Cardinality(step.keys) <= 1
            /\ "user_interaction" \in step.keys <=>
                  (stored.type \in {USER_INPUT, FINAL_RESPONSE} /\ stored.user_message # NoneId)
            /\ "system_action_details" \in step.keys <=>
                  (stored.type = SYSTEM_ACTION /\ stored.name # NoneId)

C24_Witness ==
    /\ Len(ReturnedSteps) = 2
    /\ ReturnedSteps[1].type = USER_INPUT /\ ReturnedSteps[1].keys = {"user_interaction"}
    /\ ReturnedSteps[2].type = SYSTEM_ACTION /\ ReturnedSteps[2].keys = {"system_action_details"}
    /\ workflow_service.steps[2].user_message # NoneId

\* C25: a run waiting for user input that receives an input equal, ignoring
\* case, to one of the workflow's exit keywords goes directly to COMPLETED, at
\* every step position, without executing or advancing to any further step;
\* an input that is no exact match ignoring case never triggers the exit.
CasePairs == { <<"e", "E">>, <<"n", "N">>, <<"d", "D">>, <<"x", "X">>, <<"v", "V">> }
SameLetter(a, b) == a = b \/ <<a, b>> \in CasePairs \/ <<b, a>> \in CasePairs
IsExitKeyword(input, keywords) ==
    \E i \in DOMAIN keywords :
        /\ Len(keywords[i]) = Len(input)
        /\ \A j \in DOMAIN input : SameLetter(keywords[i][j], input[j])
C25_ExitKeywordCompletes ==
    [][ (workflow_run.status = AWAITING_USER_INPUT /\ workflow_run'.inputs = workflow_run.inputs + 1)
          => IF IsExitKeyword(workflow_run'.last_input, workflow_run.workflow.workflow_exit_keywords)
             THEN /\ workflow_run'.status = COMPLETED
                  /\ workflow_run'.step = workflow_run.step
                  /\ workflow_run'.executed = workflow_run.executed
             ELSE /\ ~workflow_run'.exited
                  /\ valid_input(workflow_run'.last_input)
                        => workflow_run'.executed = Append(workflow_run.executed, workflow_run.step)
                  /\ ~valid_input(workflow_run'.last_input)
                        => workflow_run'.status = AWAITING_USER_INPUT ]_vars

C25_Witness ==
    /\ workflow_run.exited
    /\ workflow_run.status = COMPLETED
    /\ workflow_run.step = 2 /\ Len(workflow_run.workflow.steps) = 2
    /\ workflow_run.last_input = <<"E", "N", "D">>
    /\ workflow_run.executed = <<1>>

\* C26: in both delivery modes, whenever the last status update of a turn
\* (final, or input_required) is on the event queue, the session store already
\* holds that turn's agent reply and current state.
LastUpdateSent(t) ==
    /\ turn[t].pc \in {"update_sent", "done"}
    /\ event_queue[t] # <<>>
    /\ LET e == event_queue[t][Len(event_queue[t])]
       IN  e.kind = "status" /\ (e.final \/ e.state = input_required)
C26_SavedBeforeLastUpdate ==
    \A t \in Slots :
        LastUpdateSent(t) =>
            LET row == chat_session[turn[t].context_id, turn[t].state.user_id]
            IN  /\ row.exists
                /\ row.conversation # <<>>
                /\ row.conversation[Len(row.conversation)] = AgentEntry(turn[t].state.output)
                /\ "messages" \in row.current_state.keys
                /\ row.current_state.messages = turn[t].state.messages

\* C27: the conversation and current state load_agent_session returns to a
\* turn of user U on context C are those a save of user U on context C wrote
\* (nothing when U has saved none there); a turn of another user on the same
\* context id never receives them.
Loaded(t) == turn[t].pc = "get_user_info" /\ turn'[t].pc = "main"
C27_LoadsOwnSession ==
    [][ \A t \in Slots :
          Loaded(t) =>
            LET state == turn'[t].state
                own == chat_session[turn[t].context_id, state.user_id]
                loaded == SubSeq(state.conversation, 1, Len(state.conversation) - 1)
            IN  loaded = IF own.exists THEN own.conversation ELSE <<>> ]_vars

\* C28: on every continuing turn (is_new_conversation false), whatever the
\* stored current state holds, the message list handed to the workflow run
\* ends with the entry {role: user, content: <this turn's input>}.
C28_MessagesEndWithUserTurn ==
    \A t \in Slots :
        (turn[t].pc = "main" /\ ~turn[t].state.is_new_conversation) =>
            /\ turn[t].state.messages # <<>>
            /\ turn[t].state.messages[Len(turn[t].state.messages)] = UserEntry(turn[t].state.input)

\* C29: get_connection makes at most `retries` connection attempts and ends
\* by returning an open connection or by raising; it never returns without a
\* connection, so execute_query never works on a missing connection.
C29_ConnectionOrError ==
    /\ Len(postgress.outcomes) <= postgress.retries
    /\ (postgress.op = "get_connection" /\ postgress.pc = "returned") => postgress.conn = "open"
    /\ postgress.pc = "query" => postgress.conn = "open"

-----------------------------------------------------------------------------
(* The cast of the run's result and the ids of the final update *)

\* The step in which main returns to the turn in slot t, the result it
\* returned, and the attributes of the state that the lines after the cast
\* assign (conversation and current_state, lines 201-202 and 225-226)
MainReturned(t) == turn[t].pc = "main" /\ turn'[t].pc \in {"update_sent", "done", "failed"}
AssignedAfterCast == {"conversation", "current_state"}
CastFrame(t) ==
    \A f \in (DOMAIN turn[t].state) \ AssignedAfterCast :
        /\ f \notin turn'[t].result.keys => turn'[t].state[f] = turn[t].state[f]
        /\ f \in turn'[t].result.keys => turn'[t].state[f] = turn'[t].result[f]
FinalUpdate(t) == event_queue'[t][Len(event_queue'[t])]

\* C30: _cast_to_agent_state(result, base) changes only the fields of base
\* that a key of result names: every field with no matching key keeps its
\* value, and the keys of result that are no fields of base are ignored without
\* error (the turn fails only when main raised); so the context id and the task
\* id on the turn's final status update are those of the request, for every
\* run result.
C30_CastKeepsRequestIds ==
    [][\A t \in SeqSlots :
          MainReturned(t) =>
             /\ (turn'[t].pc = "failed") <=> turn'[t].result.raises
             /\ turn'[t].pc # "failed" =>
                   /\ CastFrame(t)
                   /\ FinalUpdate(t).kind = "status"
                   /\ FinalUpdate(t).context_id = turn[t].context_id
                   /\ FinalUpdate(t).task_id = turn[t].task_id]_vars

\* C30 (amended): the cast changes only the attributes of base that a key of
\* result names: every field with no matching key keeps its value, and a key
\* that names no attribute of base is ignored without error, while a key that
\* names the method mark_end replaces it and the turn fails at the call of
\* mark_end.  The context id and the task id on the turn's final status update
\* are those of the request for every run result that holds no context_id
\* and no task_id key, and those the result holds under these keys otherwise.
C30_CastKeepsUnnamedFields ==
    [][\A t \in SeqSlots :
          MainReturned(t) =>
             /\ (turn'[t].pc = "failed") <=>
                   (turn'[t].result.raises \/ "mark_end" \in turn'[t].result.keys)
             /\ turn'[t].pc # "failed" =>
                   /\ CastFrame(t)
                   /\ FinalUpdate(t).kind = "status"
                   /\ FinalUpdate(t).context_id =
                         IF "context_id" \in turn'[t].result.keys
                         THEN turn'[t].result.context_id ELSE turn[t].context_id
                   /\ FinalUpdate(t).task_id =
                         IF "task_id" \in turn'[t].result.keys
                         THEN turn'[t].result.task_id ELSE turn[t].task_id]_vars

\* A turn is done on a result that holds a key that is no attribute and no id
\* key, and its final update carries the ids of the request
C30_Witness ==
    \E t \in SeqSlots :
        /\ turn[t].pc = "done"
        /\ turn[t].result.keys = {"output", "foo"}
        /\ event_queue[t] # <<>>
        /\ event_queue[t][Len(event_queue[t])].context_id = turn[t].context_id
        /\ event_queue[t][Len(event_queue[t])].task_id = turn[t].task_id
        /\ turn[t].state.context_id = turn[t].context_id
        /\ turn[t].state.task_id = turn[t].task_id

====
